---------------------------- MODULE Spec2Model ----------------------------
(***************************************************************************)
(* A model of the long-context benchmark suite: the five benchmark         *)
(* generators and scorers (src/benchmarks/*.py), the ContextManager they   *)
(* stage documents in (src/context_manager.py) and the BenchmarkRunner     *)
(* that sweeps context lengths (src/benchmarks/benchmark_runner.py).       *)
(*                                                                         *)
(* Python strings are sequences of one-character strings.  Python floats   *)
(* are exact rationals <<numerator, denominator>> in lowest terms.         *)
(***************************************************************************)
EXTENDS Integers, Sequences, FiniteSets, TLC

VARIABLES
    pc,              \* position of the runner in run_benchmark / run_all_benchmarks
    benchmark_name,  \* run_benchmark's argument
    context_lengths, \* run_benchmark's argument: sequence of target lengths
    num_runs,        \* run_benchmark's argument
    kwargs,          \* run_benchmark's **kwargs
    li,              \* index into context_lengths of the outer for loop
    run,             \* value of the inner loop variable `run`
    results,         \* results["results"]
    length_results,  \* length_results of the current target length
    test_case,       \* local test_case
    messages,        \* local messages (the list handed to the model)
    model_response,  \* local model_response
    success,         \* local success
    error,           \* local error
    elapsed_time,    \* local elapsed_time
    context_manager, \* per benchmark instance: ContextManager.context
    rng,             \* state of the module-level random generator
    returned,        \* what the entry point returned (or the exception it raised)
    all_results,     \* run_all_benchmarks: all_results["benchmarks"]
    todo,            \* run_all_benchmarks: benchmark names still to iterate
    trace,           \* history: the steps of the current sweep, in order
    fn               \* harness applying one pure function to drawn inputs

vars == <<pc, benchmark_name, context_lengths, num_runs, kwargs, li, run,
          results, length_results, test_case, messages, model_response,
          success, error, elapsed_time, context_manager, rng, returned,
          all_results, todo, trace, fn>>

runnerVars == <<pc, benchmark_name, context_lengths, num_runs, kwargs, li, run,
                results, length_results, test_case, messages, model_response,
                success, error, elapsed_time, context_manager, rng, returned,
                all_results, todo, trace>>

-----------------------------------------------------------------------------
(* Python str operations                                                   *)

UpperCase == <<"A","B","C","D","E","F","G","H","I","J","K","L","M",
               "N","O","P","Q","R","S","T","U","V","W","X","Y","Z">>
LowerCase == <<"a","b","c","d","e","f","g","h","i","j","k","l","m",
               "n","o","p","q","r","s","t","u","v","w","x","y","z">>

Whitespace == {" ", "\n", "\t"}

LowerCh(c) ==
    IF \E i \in 1..Len(UpperCase) : UpperCase[i] = c
    THEN LowerCase[CHOOSE i \in 1..Len(UpperCase) : UpperCase[i] = c]
    ELSE c

UpperCh(c) ==
    IF \E i \in 1..Len(LowerCase) : LowerCase[i] = c
    THEN UpperCase[CHOOSE i \in 1..Len(LowerCase) : LowerCase[i] = c]
    ELSE c

\* str.lower()
Lower(s) == [i \in 1..Len(s) |-> LowerCh(s[i])]

\* str.upper()
Upper(s) == [i \in 1..Len(s) |-> UpperCh(s[i])]

SetMin(S) == CHOOSE x \in S : \A y \in S : x <= y
SetMax(S) == CHOOSE x \in S : \A y \in S : x >= y

\* str.strip()
Strip(s) ==
    LET keep == {i \in 1..Len(s) : s[i] \notin Whitespace}
    IN  IF keep = {} THEN <<>> ELSE SubSeq(s, SetMin(keep), SetMax(keep))

\* `sub in s` for strings
Contains(sub, s) ==
    \E i \in 1..(Len(s) - Len(sub) + 1) : SubSeq(s, i, i + Len(sub) - 1) = sub

\* set(s.split()): the maximal runs of non-whitespace characters
WordSet(s) ==
    LET starts == {i \in 1..Len(s) :
                      s[i] \notin Whitespace /\ (i = 1 \/ s[i - 1] \in Whitespace)}
        ends == {j \in 1..Len(s) :
                    s[j] \notin Whitespace /\ (j = Len(s) \/ s[j + 1] \in Whitespace)}
    IN  {SubSeq(s, i, SetMin({j \in ends : j >= i})) : i \in starts}

-----------------------------------------------------------------------------
(* Python float arithmetic, as exact rationals                             *)

RECURSIVE GCD(_, _)
GCD(a, b) == IF b = 0 THEN a ELSE GCD(b, a % b)

\* n / d for integers n >= 0, d > 0
Frac(n, d) == LET g == GCD(n, d) IN <<n \div g, d \div g>>

Zero == Frac(0, 1)
One == Frac(1, 1)

RatLess(a, b) == a[1] * b[2] < b[1] * a[2]
RatMin(a, b) == IF RatLess(b, a) THEN b ELSE a
RatMax(a, b) == IF RatLess(a, b) THEN b ELSE a
RatMul(a, b) == Frac(a[1] * b[1], a[2] * b[2])
RatAdd(a, b) == Frac(a[1] * b[2] + b[1] * a[2], a[2] * b[2])

RECURSIVE RatSum(_)
RatSum(seq) == IF seq = <<>> THEN Zero ELSE RatAdd(Head(seq), RatSum(Tail(seq)))

\* sum(xs) / len(xs) if xs else 0.0
MeanOrZero(seq) ==
    IF seq = <<>> THEN Zero ELSE RatMul(RatSum(seq), Frac(1, Len(seq)))

-----------------------------------------------------------------------------
(* The five scorers                                                        *)

Benchmarks == <<"needle_in_haystack", "oolong", "oolong_pairs", "codeqa", "browsecomp">>

BenchmarkNames == {Benchmarks[i] : i \in 1..Len(Benchmarks)}

\* an evaluate that looks for the code as written, without folding the case
NeedleInHaystack_evaluate_CaseSensitive(response, expected) ==
    LET exact_match == Contains(expected, response)
        code_found == \E i \in 1..Len(expected) : Contains(<<expected[i]>>, Upper(response))
    IN  [correct |-> exact_match,
         score |-> IF exact_match THEN One ELSE IF code_found THEN Frac(1, 2) ELSE Zero,
         response |-> response,
         expected |-> expected,
         partial_match |-> code_found /\ ~exact_match]

\* NeedleInHaystackBenchmark.evaluate
NeedleInHaystack_evaluate(response, expected) ==
    LET response_upper == Upper(response)
        expected_upper == Upper(expected)
        exact_match == Contains(expected_upper, response_upper)
        code_found == \E i \in 1..Len(expected) : Contains(<<expected[i]>>, response_upper)
    IN  [correct |-> exact_match,
         score |-> IF exact_match THEN One ELSE IF code_found THEN Frac(1, 2) ELSE Zero,
         response |-> response,
         expected |-> expected,
         partial_match |-> code_found /\ ~exact_match]

\* tiers in which a containment match counts as correct
TieredEvaluation_ContainsIsCorrect(response, expected, exact_match, contains_match, expected_lower, response_lower) ==
    LET expected_words == WordSet(expected_lower)
        response_words == WordSet(response_lower)
        common_words == expected_words \cap response_words
        partial_score == IF expected_words # {}
                         THEN Frac(Cardinality(common_words), Cardinality(expected_words))
                         ELSE Zero
    IN  [correct |-> exact_match \/ contains_match,
         score |-> IF exact_match THEN One
                   ELSE IF contains_match THEN Frac(4, 5)
                   ELSE RatMin(Frac(3, 5), partial_score),
         response |-> response,
         expected |-> expected,
         contains_match |-> contains_match,
         partial_score |-> partial_score]

\* The tiers shared by OOLONG, OOLONG PAIRS and CodeQA: only contains_match differs
TieredEvaluation(response, expected, exact_match, contains_match, expected_lower, response_lower) ==
    LET expected_words == WordSet(expected_lower)
        response_words == WordSet(response_lower)
        common_words == expected_words \cap response_words
        partial_score == IF expected_words # {}
                         THEN Frac(Cardinality(common_words), Cardinality(expected_words))
                         ELSE Zero
    IN  [correct |-> exact_match,
         score |-> IF exact_match THEN One
                   ELSE IF contains_match THEN Frac(4, 5)
                   ELSE RatMin(Frac(3, 5), partial_score),
         response |-> response,
         expected |-> expected,
         contains_match |-> contains_match,
         partial_score |-> partial_score]

\* OOLONGBenchmark.evaluate
OOLONG_evaluate(response, expected) ==
    LET response_lower == Strip(Lower(response))
        expected_lower == Strip(Lower(expected))
    IN  TieredEvaluation(response, expected,
            expected_lower = response_lower,
            Contains(expected_lower, response_lower) \/ Contains(response_lower, expected_lower),
            expected_lower, response_lower)

\* OOLONGPairsBenchmark.evaluate
OOLONGPairs_evaluate(response, expected) ==
    LET response_lower == Strip(Lower(response))
        expected_lower == Strip(Lower(expected))
    IN  TieredEvaluation(response, expected,
            expected_lower = response_lower,
            Contains(expected_lower, response_lower),
            expected_lower, response_lower)

\* CodeQABenchmark.evaluate
CodeQA_evaluate(response, expected) ==
    LET response_lower == Strip(Lower(response))
        expected_lower == Strip(Lower(expected))
    IN  TieredEvaluation(response, expected,
            expected_lower = response_lower,
            Contains(expected_lower, response_lower),
            expected_lower, response_lower)

\* x * 0.8 in the doubles of Python, for a quotient x of two counts.  The
\* product is exact here but for 0.875 * 0.8: the double nearest to it is
\* 0.7000000000000001, above the double 0.7 it is then compared with; it is
\* given as a rational just above 7/10.
TimesPoint8(x) ==
    IF x = Frac(7, 8) THEN <<7001, 10000>> ELSE RatMul(x, Frac(4, 5))

\* an evaluate for which a word of four characters is a key term too
BrowseComp_evaluate_FourLetters(response, expected) ==
    LET response_lower == Strip(Lower(response))
        expected_lower == Strip(Lower(expected))
        expected_words == WordSet(expected_lower)
        response_words == WordSet(response_lower)
        common_words == expected_words \cap response_words
        word_overlap == IF Cardinality(expected_words) > 0
                        THEN Frac(Cardinality(common_words), Cardinality(expected_words))
                        ELSE Zero
        key_terms == {w \in expected_words : Len(w) >= 4}
        found_terms == Cardinality({term \in key_terms : Contains(term, response_lower)})
        term_score == IF key_terms # {} THEN Frac(found_terms, Cardinality(key_terms)) ELSE Zero
        score == RatMax(word_overlap, TimesPoint8(term_score))
    IN  [correct |-> RatLess(Frac(7, 10), score),
         score |-> score,
         response |-> response,
         expected |-> expected,
         word_overlap |-> word_overlap,
         term_score |-> term_score]

\* an evaluate that adds the two signals where the code takes the larger
BrowseComp_evaluate_Adds(response, expected) ==
    LET response_lower == Strip(Lower(response))
        expected_lower == Strip(Lower(expected))
        expected_words == WordSet(expected_lower)
        response_words == WordSet(response_lower)
        common_words == expected_words \cap response_words
        word_overlap == IF Cardinality(expected_words) > 0
                        THEN Frac(Cardinality(common_words), Cardinality(expected_words))
                        ELSE Zero
        key_terms == {w \in expected_words : Len(w) > 4}
        found_terms == Cardinality({term \in key_terms : Contains(term, response_lower)})
        term_score == IF key_terms # {} THEN Frac(found_terms, Cardinality(key_terms)) ELSE Zero
        score == RatAdd(word_overlap, TimesPoint8(term_score))
    IN  [correct |-> RatLess(Frac(7, 10), score),
         score |-> score,
         response |-> response,
         expected |-> expected,
         word_overlap |-> word_overlap,
         term_score |-> term_score]

\* BrowseCompBenchmark.evaluate
BrowseComp_evaluate(response, expected) ==
    LET response_lower == Strip(Lower(response))
        expected_lower == Strip(Lower(expected))
        expected_words == WordSet(expected_lower)
        response_words == WordSet(response_lower)
        common_words == expected_words \cap response_words
        word_overlap == IF Cardinality(expected_words) > 0
                        THEN Frac(Cardinality(common_words), Cardinality(expected_words))
                        ELSE Zero
        key_terms == {w \in expected_words : Len(w) > 4}
        found_terms == Cardinality({term \in key_terms : Contains(term, response_lower)})
        term_score == IF key_terms # {} THEN Frac(found_terms, Cardinality(key_terms)) ELSE Zero
        score == RatMax(word_overlap, TimesPoint8(term_score))
    IN  [correct |-> RatLess(Frac(7, 10), score),
         score |-> score,
         response |-> response,
         expected |-> expected,
         word_overlap |-> word_overlap,
         term_score |-> term_score]

\* benchmark.evaluate(response, expected) dispatched on the instance's class
evaluate(name, response, expected) ==
    CASE name = "needle_in_haystack" -> NeedleInHaystack_evaluate(response, expected)
      [] name = "oolong" -> OOLONG_evaluate(response, expected)
      [] name = "oolong_pairs" -> OOLONGPairs_evaluate(response, expected)
      [] name = "codeqa" -> CodeQA_evaluate(response, expected)
      [] name = "browsecomp" -> BrowseComp_evaluate(response, expected)

-----------------------------------------------------------------------------
(* The fixed pools of the generators (strings spelled character by character) *)

\* NeedleInHaystackBenchmark.needle_template.format(code=code) is
\* "The special code is: " followed by the 8 characters of the code
needle_template == <<"T","h","e"," ","s","p","e","c","i","a","l"," ","c","o","d","e"," ","i","s",":"," ">>

\* len() of each of NeedleInHaystackBenchmark.haystack_sentences
haystack_sentences == <<49, 46, 56, 43, 48, 54, 57, 52, 53, 52>>

\* the question of every needle-in-haystack test case
needle_question ==
    <<"W","h","a","t"," ","i","s"," ","t","h","e"," ","s","p","e","c","i","a","l"," ","c","o","d","e"," ","m","e","n","t","i","o","n","e","d"," ","i","n"," ","t","h","e"," ","t","e","x","t","?">>

\* OOLONGBenchmark.facts
facts == <<
    \* The capital of France is / Paris
    [prompt |-> <<"T","h","e"," ","c","a","p","i","t","a","l"," ","o","f"," ","F","r","a","n","c","e"," ","i","s">>,
     answer |-> <<"P","a","r","i","s">>],
    \* The largest planet in our solar system is / Jupiter
    [prompt |-> <<"T","h","e"," ","l","a","r","g","e","s","t"," ","p","l","a","n","e","t"," ","i","n"," ","o","u","r"," ","s","o","l","a","r"," ","s","y","s","t","e","m"," ","i","s">>,
     answer |-> <<"J","u","p","i","t","e","r">>],
    \* The speed of light is approximately / 300,000 km/s
    [prompt |-> <<"T","h","e"," ","s","p","e","e","d"," ","o","f"," ","l","i","g","h","t"," ","i","s"," ","a","p","p","r","o","x","i","m","a","t","e","l","y">>,
     answer |-> <<"3","0","0",",","0","0","0"," ","k","m","/","s">>],
    \* The author of '1984' is / George Orwell
    [prompt |-> <<"T","h","e"," ","a","u","t","h","o","r"," ","o","f"," ","'","1","9","8","4","'"," ","i","s">>,
     answer |-> <<"G","e","o","r","g","e"," ","O","r","w","e","l","l">>],
    \* The chemical symbol for gold is / Au
    [prompt |-> <<"T","h","e"," ","c","h","e","m","i","c","a","l"," ","s","y","m","b","o","l"," ","f","o","r"," ","g","o","l","d"," ","i","s">>,
     answer |-> <<"A","u">>],
    \* The tallest mountain on Earth is / Mount Everest
    [prompt |-> <<"T","h","e"," ","t","a","l","l","e","s","t"," ","m","o","u","n","t","a","i","n"," ","o","n"," ","E","a","r","t","h"," ","i","s">>,
     answer |-> <<"M","o","u","n","t"," ","E","v","e","r","e","s","t">>],
    \* The smallest country in the world is / Vatican City
    [prompt |-> <<"T","h","e"," ","s","m","a","l","l","e","s","t"," ","c","o","u","n","t","r","y"," ","i","n"," ","t","h","e"," ","w","o","r","l","d"," ","i","s">>,
     answer |-> <<"V","a","t","i","c","a","n"," ","C","i","t","y">>],
    \* The longest river in the world is / the Nile
    [prompt |-> <<"T","h","e"," ","l","o","n","g","e","s","t"," ","r","i","v","e","r"," ","i","n"," ","t","h","e"," ","w","o","r","l","d"," ","i","s">>,
     answer |-> <<"t","h","e"," ","N","i","l","e">>],
    \* The first person to walk on the moon was / Neil Armstrong
    [prompt |-> <<"T","h","e"," ","f","i","r","s","t"," ","p","e","r","s","o","n"," ","t","o"," ","w","a","l","k"," ","o","n"," ","t","h","e"," ","m","o","o","n"," ","w","a","s">>,
     answer |-> <<"N","e","i","l"," ","A","r","m","s","t","r","o","n","g">>],
    \* The programming language Python was created by / Guido van Rossum
    [prompt |-> <<"T","h","e"," ","p","r","o","g","r","a","m","m","i","n","g"," ","l","a","n","g","u","a","g","e"," ","P","y","t","h","o","n"," ","w","a","s"," ","c","r","e","a","t","e","d"," ","b","y">>,
     answer |-> <<"G","u","i","d","o"," ","v","a","n"," ","R","o","s","s","u","m">>]
    >>

\* len() of each of OOLONGBenchmark.generate_test_case's filler_sentences
oolong_filler_sentences == <<54, 49, 47, 49, 50, 45, 41, 36, 46, 48>>

\* OOLONGPairsBenchmark.pairs
pairs == <<
    \* Alice, engineer, works at, TechCorp
    [person |-> <<"A","l","i","c","e">>,
     role |-> <<"e","n","g","i","n","e","e","r">>,
     relation |-> <<"w","o","r","k","s"," ","a","t">>,
     detail |-> <<"T","e","c","h","C","o","r","p">>],
    \* Bob, doctor, specializes in, cardiology
    [person |-> <<"B","o","b">>,
     role |-> <<"d","o","c","t","o","r">>,
     relation |-> <<"s","p","e","c","i","a","l","i","z","e","s"," ","i","n">>,
     detail |-> <<"c","a","r","d","i","o","l","o","g","y">>],
    \* Charlie, teacher, teaches, mathematics
    [person |-> <<"C","h","a","r","l","i","e">>,
     role |-> <<"t","e","a","c","h","e","r">>,
     relation |-> <<"t","e","a","c","h","e","s">>,
     detail |-> <<"m","a","t","h","e","m","a","t","i","c","s">>],
    \* Diana, artist, creates, digital art
    [person |-> <<"D","i","a","n","a">>,
     role |-> <<"a","r","t","i","s","t">>,
     relation |-> <<"c","r","e","a","t","e","s">>,
     detail |-> <<"d","i","g","i","t","a","l"," ","a","r","t">>],
    \* Eve, scientist, researches, quantum physics
    [person |-> <<"E","v","e">>,
     role |-> <<"s","c","i","e","n","t","i","s","t">>,
     relation |-> <<"r","e","s","e","a","r","c","h","e","s">>,
     detail |-> <<"q","u","a","n","t","u","m"," ","p","h","y","s","i","c","s">>],
    \* Frank, chef, cooks, Italian cuisine
    [person |-> <<"F","r","a","n","k">>,
     role |-> <<"c","h","e","f">>,
     relation |-> <<"c","o","o","k","s">>,
     detail |-> <<"I","t","a","l","i","a","n"," ","c","u","i","s","i","n","e">>],
    \* Grace, writer, writes, science fiction
    [person |-> <<"G","r","a","c","e">>,
     role |-> <<"w","r","i","t","e","r">>,
     relation |-> <<"w","r","i","t","e","s">>,
     detail |-> <<"s","c","i","e","n","c","e"," ","f","i","c","t","i","o","n">>],
    \* Henry, musician, plays, jazz piano
    [person |-> <<"H","e","n","r","y">>,
     role |-> <<"m","u","s","i","c","i","a","n">>,
     relation |-> <<"p","l","a","y","s">>,
     detail |-> <<"j","a","z","z"," ","p","i","a","n","o">>],
    \* Iris, designer, designs, user interfaces
    [person |-> <<"I","r","i","s">>,
     role |-> <<"d","e","s","i","g","n","e","r">>,
     relation |-> <<"d","e","s","i","g","n","s">>,
     detail |-> <<"u","s","e","r"," ","i","n","t","e","r","f","a","c","e","s">>],
    \* Jack, analyst, analyzes, financial data
    [person |-> <<"J","a","c","k">>,
     role |-> <<"a","n","a","l","y","s","t">>,
     relation |-> <<"a","n","a","l","y","z","e","s">>,
     detail |-> <<"f","i","n","a","n","c","i","a","l"," ","d","a","t","a">>]
    >>

\* len() of each of OOLONGPairsBenchmark.generate_test_case's filler_sentences
pairs_filler_sentences == <<58, 52, 49, 48, 48, 48, 39, 47, 43, 40>>

\* CodeQABenchmark.code_snippets; code_len is len(snippet["code"])
code_snippets == <<
    \* Fibonacci numbers
    [code_len |-> 94,
     question |-> <<"W","h","a","t"," ","d","o","e","s"," ","t","h","i","s"," ","f","u","n","c","t","i","o","n"," ","c","a","l","c","u","l","a","t","e","?">>,
     answer |-> <<"F","i","b","o","n","a","c","c","i"," ","n","u","m","b","e","r","s">>],
    \* Quicksort
    [code_len |-> 275,
     question |-> <<"W","h","a","t"," ","s","o","r","t","i","n","g"," ","a","l","g","o","r","i","t","h","m"," ","i","s"," ","t","h","i","s","?">>,
     answer |-> <<"Q","u","i","c","k","s","o","r","t">>],
    \* Linked list
    [code_len |-> 161,
     question |-> <<"W","h","a","t"," ","d","a","t","a"," ","s","t","r","u","c","t","u","r","e"," ","d","o","e","s"," ","t","h","i","s"," ","i","m","p","l","e","m","e","n","t","?">>,
     answer |-> <<"L","i","n","k","e","d"," ","l","i","s","t">>],
    \* O(log n)
    [code_len |-> 295,
     question |-> <<"W","h","a","t"," ","i","s"," ","t","h","e"," ","t","i","m","e"," ","c","o","m","p","l","e","x","i","t","y"," ","o","f"," ","t","h","i","s"," ","a","l","g","o","r","i","t","h","m","?">>,
     answer |-> <<"O","(","l","o","g"," ","n",")">>]
    >>

\* len() of each of CodeQABenchmark.generate_test_case's doc_sentences
doc_sentences == <<40, 59, 42, 45, 46, 42, 44, 45, 42, 51>>

\* BrowseCompBenchmark.document_sections
document_sections == <<
    \* Introduction
    [title |-> <<"I","n","t","r","o","d","u","c","t","i","o","n">>,
     content |-> <<"T","h","i","s"," ","d","o","c","u","m","e","n","t"," ","p","r","o","v","i","d","e","s"," ","c","o","m","p","r","e","h","e","n","s","i","v","e"," ","i","n","f","o","r","m","a","t","i","o","n"," ","a","b","o","u","t"," ","t","h","e"," ","t","o","p","i","c","."," ","I","t"," ","c","o","v","e","r","s"," ","v","a","r","i","o","u","s"," ","a","s","p","e","c","t","s"," ","a","n","d"," ","d","e","t","a","i","l","s",".">>],
    \* Background
    [title |-> <<"B","a","c","k","g","r","o","u","n","d">>,
     content |-> <<"T","h","e"," ","h","i","s","t","o","r","i","c","a","l"," ","c","o","n","t","e","x","t"," ","i","s"," ","i","m","p","o","r","t","a","n","t"," ","f","o","r"," ","u","n","d","e","r","s","t","a","n","d","i","n","g"," ","t","h","e"," ","c","u","r","r","e","n","t"," ","s","t","a","t","e"," ","o","f"," ","a","f","f","a","i","r","s",".">>],
    \* Methodology
    [title |-> <<"M","e","t","h","o","d","o","l","o","g","y">>,
     content |-> <<"T","h","e"," ","a","p","p","r","o","a","c","h"," ","u","s","e","d"," ","i","n","v","o","l","v","e","s"," ","s","y","s","t","e","m","a","t","i","c"," ","a","n","a","l","y","s","i","s"," ","a","n","d"," ","c","a","r","e","f","u","l"," ","c","o","n","s","i","d","e","r","a","t","i","o","n"," ","o","f"," ","a","l","l"," ","f","a","c","t","o","r","s",".">>],
    \* Results
    [title |-> <<"R","e","s","u","l","t","s">>,
     content |-> <<"T","h","e"," ","f","i","n","d","i","n","g","s"," ","i","n","d","i","c","a","t","e"," ","s","i","g","n","i","f","i","c","a","n","t"," ","p","r","o","g","r","e","s","s"," ","i","n"," ","t","h","e"," ","f","i","e","l","d"," ","w","i","t","h"," ","m","e","a","s","u","r","a","b","l","e"," ","i","m","p","r","o","v","e","m","e","n","t","s",".">>],
    \* Discussion
    [title |-> <<"D","i","s","c","u","s","s","i","o","n">>,
     content |-> <<"T","h","e","s","e"," ","r","e","s","u","l","t","s"," ","h","a","v","e"," ","i","m","p","o","r","t","a","n","t"," ","i","m","p","l","i","c","a","t","i","o","n","s"," ","f","o","r"," ","f","u","t","u","r","e"," ","r","e","s","e","a","r","c","h"," ","a","n","d"," ","d","e","v","e","l","o","p","m","e","n","t",".">>],
    \* Conclusion
    [title |-> <<"C","o","n","c","l","u","s","i","o","n">>,
     content |-> <<"I","n"," ","s","u","m","m","a","r","y",","," ","t","h","e"," ","w","o","r","k"," ","d","e","m","o","n","s","t","r","a","t","e","s"," ","c","l","e","a","r"," ","a","d","v","a","n","c","e","m","e","n","t"," ","i","n"," ","t","h","e"," ","d","o","m","a","i","n",".">>]
    >>

\* BrowseCompBenchmark.questions
questions == <<
    \* What is the main topic? / the topic
    [question |-> <<"W","h","a","t"," ","i","s"," ","t","h","e"," ","m","a","i","n"," ","t","o","p","i","c","?">>,
     expected_part |-> <<"t","h","e"," ","t","o","p","i","c">>],
    \* What does the methodology involve? / systematic analysis
    [question |-> <<"W","h","a","t"," ","d","o","e","s"," ","t","h","e"," ","m","e","t","h","o","d","o","l","o","g","y"," ","i","n","v","o","l","v","e","?">>,
     expected_part |-> <<"s","y","s","t","e","m","a","t","i","c"," ","a","n","a","l","y","s","i","s">>],
    \* What do the results indicate? / significant progress
    [question |-> <<"W","h","a","t"," ","d","o"," ","t","h","e"," ","r","e","s","u","l","t","s"," ","i","n","d","i","c","a","t","e","?">>,
     expected_part |-> <<"s","i","g","n","i","f","i","c","a","n","t"," ","p","r","o","g","r","e","s","s">>],
    \* What are the implications? / future research
    [question |-> <<"W","h","a","t"," ","a","r","e"," ","t","h","e"," ","i","m","p","l","i","c","a","t","i","o","n","s","?">>,
     expected_part |-> <<"f","u","t","u","r","e"," ","r","e","s","e","a","r","c","h">>]
    >>

\* len() of each of BrowseCompBenchmark.generate_test_case's detail_sentences
detail_sentences == <<48, 54, 52, 48, 48>>

\* The codes random.choices(string.ascii_uppercase + string.digits, k=8) can
\* return are the 36^8 strings of 8 such characters; these stand for them
Codes == <<
    <<"A","1","B","2","C","3","D","4">>,
    <<"Z","Z","Z","Z","Z","Z","Z","Z">>,
    <<"7","Q","2","K","X","9","P","L">> >>

-----------------------------------------------------------------------------
(* The module-level random generator: a deterministic stream of draws.     *)
(* Every elementary draw reads the current state and advances it.          *)

\* the states of the generator
RngStates == 0..15

RandNext(r) == (r + 7) % Cardinality(RngStates)

\* the state i draws after state r
Draw(r, i) == (r + 7 * i) % Cardinality(RngStates)

\* random.randint(lo, hi) read off state r
randint(lo, hi, r) == lo + (r % (hi - lo + 1))

\* random.choice over a pool of n items read off state r: the index chosen
choice(n, r) == (r % n) + 1

\* random.choices(pool, k=k): k independent draws, starting at state r
choices(n, k, r) == [i \in 1..k |-> choice(n, Draw(r, i - 1))]

\* random.sample(pool, k): k distinct indices in drawn order, starting at state r
sample(n, k, r) == [j \in 1..k |-> ((r + j - 1) % n) + 1]

-----------------------------------------------------------------------------
(* Documents.  A document is the sequence of its units (sentences, titles, *)
(* code); a unit is [kind, id, pos]: id indexes the pool the unit was      *)
(* drawn from, pos is the section number of a BrowseComp fact (else 0).    *)

Unit(kind, id) == [kind |-> kind, id |-> id, pos |-> 0]

RECURSIVE Digits(_)
\* len(str(n)) for n >= 0
Digits(n) == IF n < 10 THEN 1 ELSE 1 + Digits(n \div 10)

\* len() of the text of one unit
UnitLen(u) ==
    CASE u.kind = "needle" -> Len(needle_template) + Len(Codes[u.id])
      [] u.kind = "haystack" -> haystack_sentences[u.id]
      \* f"{fact_question} {fact_answer}."
      [] u.kind = "fact" -> Len(facts[u.id].prompt) + 1 + Len(facts[u.id].answer) + 1
      [] u.kind = "oolong_filler" -> oolong_filler_sentences[u.id]
      \* f"{person} is a {role}."
      [] u.kind = "role" -> Len(pairs[u.id].person) + 6 + Len(pairs[u.id].role) + 1
      \* f"{person} {relation} {detail}."
      [] u.kind = "relation" -> Len(pairs[u.id].person) + 1 + Len(pairs[u.id].relation)
                                  + 1 + Len(pairs[u.id].detail) + 1
      [] u.kind = "pairs_filler" -> pairs_filler_sentences[u.id]
      [] u.kind = "doc" -> doc_sentences[u.id]
      \* "Here is the code:"
      [] u.kind = "header" -> 17
      [] u.kind = "code" -> code_snippets[u.id].code_len
      [] u.kind = "title" -> Len(document_sections[u.id].title)
      [] u.kind = "content" -> Len(document_sections[u.id].content)
      \* f"Section {i+1} contains important information about {title.lower()}."
      [] u.kind = "section_fact" -> 8 + Digits(u.pos) + 38
                                      + Len(document_sections[u.id].title) + 1
      [] u.kind = "detail" -> detail_sentences[u.id]

\* len() of what joins unit u to the unit v after it: "\n\n" around the code
\* header and the code and between sections, one character elsewhere
SepLen(u, v) ==
    IF u.kind \in {"header", "code"} \/ v.kind \in {"header", "title"} THEN 2 ELSE 1

RECURSIVE SumLen(_)
\* the lengths of the units and of what joins them, summed by halves
SumLen(units) ==
    IF units = <<>> THEN 0
    ELSE IF Len(units) = 1 THEN UnitLen(units[1])
    ELSE LET h == Len(units) \div 2
         IN  SumLen(SubSeq(units, 1, h)) + SepLen(units[h], units[h + 1])
             + SumLen(SubSeq(units, h + 1, Len(units)))

\* len(context) of a document
DocLen(units) == SumLen(units)

\* an estimator that rounds up
count_tokens_RoundsUp(text_len) == (text_len + 3) \div 4

\* BaseBenchmark.count_tokens, given len(text)
count_tokens(text_len) == text_len \div 4

-----------------------------------------------------------------------------
(* ContextManager                                                          *)

\* ContextManager.create: the context after the call (the index returned is
\* the previous size)
ContextManager_create(context, role, content) ==
    Append(context, [role |-> role, content |-> content, metadata |-> <<>>])

\* a clear that leaves the entries in place
ContextManager_clear_Keeps(context) == context

\* ContextManager.clear
ContextManager_clear(context) == <<>>

\* ContextManager.get_messages: a new list of {role, content}
ContextManager_get_messages(context) ==
    [i \in 1..Len(context) |-> [role |-> context[i].role, content |-> context[i].content]]

RECURSIVE TokenSum(_)
TokenSum(context) ==
    IF context = <<>> THEN 0
    ELSE count_tokens(DocLen(Head(context).content)) + TokenSum(Tail(context))

\* BaseBenchmark.get_context_length
get_context_length(context) == TokenSum(context)

-----------------------------------------------------------------------------
(* The five generators.  Each takes the target length, the keyword         *)
(* arguments, the random state and the instance's ContextManager context,   *)
(* and yields either the TestCase with the new context and random state or  *)
(* the exception raised.  A target length is [none, n]: the integer n, or   *)
(* None (not an integer) when none is TRUE.                                 *)

Max(a, b) == IF a >= b THEN a ELSE b
Min(a, b) == IF a <= b THEN a ELSE b

IntLength(n) == [none |-> FALSE, n |-> n]
NoneLength == [none |-> TRUE, n |-> 0]

\* a keyword argument's value, or the parameter's default when it is not passed
Opt(value, default) == IF value = "absent" THEN default ELSE value

NoKwargs ==
    [needle_position |-> "absent", fact_position |-> "absent",
     pair_separation |-> "absent", num_sections |-> [given |-> FALSE, value |-> 0]]

Raised(exception, context, r) ==
    [raised |-> TRUE, error |-> exception, context |-> context, rng |-> r]

Generated(tc, context, r) ==
    [raised |-> FALSE, test_case |-> tc, context |-> context, rng |-> r]

Fill(kind, ids) == [i \in 1..Len(ids) |-> Unit(kind, ids[i])]

\* a haystack whose "middle" is the length, where no sentence is
generate_haystack_MiddleAtLength(length, needle, needle_position, r) ==
    LET drawn == needle_position \notin {"start", "middle", "end"}
        needle_pos == CASE needle_position = "start" -> 0
                        [] needle_position = "middle" -> length
                        [] needle_position = "end" -> length - 1
                        [] OTHER -> randint(0, length - 1, r)
        r1 == IF drawn THEN Draw(r, 1) ELSE r
        sentences == [i \in 1..length |->
                        IF i - 1 = needle_pos
                        THEN Unit("needle", needle)
                        ELSE Unit("haystack",
                                  choice(Len(haystack_sentences),
                                         Draw(r1, IF i - 1 > needle_pos THEN i - 2 ELSE i - 1)))]
    IN  [units |-> sentences, rng |-> Draw(r1, length - 1)]

\* NeedleInHaystackBenchmark.generate_haystack
generate_haystack(length, needle, needle_position, r) ==
    LET drawn == needle_position \notin {"start", "middle", "end"}
        needle_pos == CASE needle_position = "start" -> 0
                        [] needle_position = "middle" -> length \div 2
                        [] needle_position = "end" -> length - 1
                        [] OTHER -> randint(0, length - 1, r)
        r1 == IF drawn THEN Draw(r, 1) ELSE r
        sentences == [i \in 1..length |->
                        IF i - 1 = needle_pos
                        THEN Unit("needle", needle)
                        ELSE Unit("haystack",
                                  choice(Len(haystack_sentences),
                                         Draw(r1, IF i - 1 > needle_pos THEN i - 2 ELSE i - 1)))]
    IN  [units |-> sentences, rng |-> Draw(r1, length - 1)]

\* NeedleInHaystackBenchmark.generate_test_case
NeedleInHaystack_generate_test_case(context_length, kw, r, context) ==
    LET code == choice(Len(Codes), r)
        r1 == Draw(r, 1)
    IN  IF context_length.none THEN Raised("TypeError", context, r1)
        ELSE
        LET num_sentences == Max(10, context_length.n \div 50)
            hay == generate_haystack(num_sentences, code, Opt(kw.needle_position, "random"), r1)
            built == ContextManager_create(ContextManager_clear(context), "user", hay.units)
        IN  Generated([context |-> hay.units,
                       question |-> needle_question,
                       expected_answer |-> Codes[code],
                       metadata |-> [context_length |-> get_context_length(built),
                                     num_sentences |-> num_sentences]],
                      built, hay.rng)

RECURSIVE RStrip(_, _)
\* str.rstrip(chars): drop trailing characters that are in chars
RStrip(s, chars) ==
    IF s # <<>> /\ s[Len(s)] \in chars THEN RStrip(SubSeq(s, 1, Len(s) - 1), chars) ELSE s

\* a generator whose "end" leaves one filler sentence after the fact
OOLONG_generate_test_case_EndBeforeLast(context_length, kw, r, context) ==
    LET fact == choice(Len(facts), r)
        r1 == Draw(r, 1)
        nf == Len(oolong_filler_sentences)
    IN  IF context_length.none THEN Raised("TypeError", context, r1)
        ELSE
        LET num_filler_sentences == Max(5, (context_length.n - 20) \div 10)
            fact_position == Opt(kw.fact_position, "random")
            half == num_filler_sentences \div 2
            pos == randint(0, num_filler_sentences, r1)
            r2 == Draw(r1, 1)
            context_parts ==
                CASE fact_position = "start" ->
                        <<Unit("fact", fact)>>
                        \o Fill("oolong_filler", choices(nf, num_filler_sentences, r1))
                  [] fact_position = "middle" ->
                        Fill("oolong_filler", choices(nf, half, r1))
                        \o <<Unit("fact", fact)>>
                        \o Fill("oolong_filler",
                                choices(nf, num_filler_sentences - half, Draw(r1, half)))
                  [] fact_position = "end" ->
                        Fill("oolong_filler", choices(nf, num_filler_sentences - 1, r1))
                        \o <<Unit("fact", fact)>>
                        \o Fill("oolong_filler",
                                choices(nf, 1, Draw(r1, num_filler_sentences - 1)))
                  [] OTHER ->
                        Fill("oolong_filler", choices(nf, pos, r2))
                        \o <<Unit("fact", fact)>>
                        \o Fill("oolong_filler",
                                choices(nf, num_filler_sentences - pos, Draw(r2, pos)))
            after == IF fact_position \in {"start", "middle", "end"}
                     THEN Draw(r1, num_filler_sentences)
                     ELSE Draw(r2, num_filler_sentences)
            built == ContextManager_create(ContextManager_clear(context), "user", context_parts)
        IN  Generated([context |-> context_parts,
                       question |-> RStrip(facts[fact].prompt, {" ", "i", "s"}),
                       expected_answer |-> facts[fact].answer,
                       metadata |-> [context_length |-> get_context_length(built),
                                     num_sentences |-> Len(context_parts)]],
                      built, after)

\* OOLONGBenchmark.generate_test_case
OOLONG_generate_test_case(context_length, kw, r, context) ==
    LET fact == choice(Len(facts), r)
        r1 == Draw(r, 1)
        nf == Len(oolong_filler_sentences)
    IN  IF context_length.none THEN Raised("TypeError", context, r1)
        ELSE
        LET num_filler_sentences == Max(5, (context_length.n - 20) \div 10)
            fact_position == Opt(kw.fact_position, "random")
            half == num_filler_sentences \div 2
            pos == randint(0, num_filler_sentences, r1)
            r2 == Draw(r1, 1)
            context_parts ==
                CASE fact_position = "start" ->
                        <<Unit("fact", fact)>>
                        \o Fill("oolong_filler", choices(nf, num_filler_sentences, r1))
                  [] fact_position = "middle" ->
                        Fill("oolong_filler", choices(nf, half, r1))
                        \o <<Unit("fact", fact)>>
                        \o Fill("oolong_filler",
                                choices(nf, num_filler_sentences - half, Draw(r1, half)))
                  [] fact_position = "end" ->
                        Fill("oolong_filler", choices(nf, num_filler_sentences, r1))
                        \o <<Unit("fact", fact)>>
                  [] OTHER ->
                        Fill("oolong_filler", choices(nf, pos, r2))
                        \o <<Unit("fact", fact)>>
                        \o Fill("oolong_filler",
                                choices(nf, num_filler_sentences - pos, Draw(r2, pos)))
            after == IF fact_position \in {"start", "middle", "end"}
                     THEN Draw(r1, num_filler_sentences)
                     ELSE Draw(r2, num_filler_sentences)
            built == ContextManager_create(ContextManager_clear(context), "user", context_parts)
        IN  Generated([context |-> context_parts,
                       question |-> RStrip(facts[fact].prompt, {" ", "i", "s"}),
                       expected_answer |-> facts[fact].answer,
                       metadata |-> [context_length |-> get_context_length(built),
                                     num_sentences |-> Len(context_parts)]],
                      built, after)

\* a generator that cuts the separation down to the filler the target length
\* asks for
OOLONGPairs_generate_test_case_CutToLength(context_length, kw, r, context) ==
    LET pair == choice(Len(pairs), r)
        r1 == Draw(r, 1)
        nf == Len(pairs_filler_sentences)
        pair_separation == Opt(kw.pair_separation, "far")
        drawn == pair_separation \notin {"close", "medium", "far"}
        separation == CASE pair_separation = "close" -> 2
                        [] pair_separation = "medium" -> 10
                        [] pair_separation = "far" -> 30
                        [] OTHER -> randint(2, 30, r1)
        r2 == IF drawn THEN Draw(r1, 1) ELSE r1
    IN  IF context_length.none THEN Raised("TypeError", context, r2)
        ELSE
        LET wanted == Max(0, (context_length.n - 30) \div 10)
            between == Min(separation, wanted)
            num_filler == Max(between, wanted)
            context_parts ==
                <<Unit("role", pair)>>
                \o Fill("pairs_filler", choices(nf, between, r2))
                \o <<Unit("relation", pair)>>
                \o Fill("pairs_filler",
                        choices(nf, num_filler - between, Draw(r2, between)))
            built == ContextManager_create(ContextManager_clear(context), "user", context_parts)
        IN  Generated([context |-> context_parts,
                       \* f"What does {person} {relation}?"
                       question |-> <<"W","h","a","t"," ","d","o","e","s"," ">>
                                    \o pairs[pair].person \o <<" ">>
                                    \o pairs[pair].relation \o <<"?">>,
                       expected_answer |-> pairs[pair].detail,
                       metadata |-> [context_length |-> get_context_length(built),
                                     num_sentences |-> Len(context_parts)]],
                      built, Draw(r2, num_filler))

\* OOLONGPairsBenchmark.generate_test_case
OOLONGPairs_generate_test_case(context_length, kw, r, context) ==
    LET pair == choice(Len(pairs), r)
        r1 == Draw(r, 1)
        nf == Len(pairs_filler_sentences)
        pair_separation == Opt(kw.pair_separation, "far")
        drawn == pair_separation \notin {"close", "medium", "far"}
        separation == CASE pair_separation = "close" -> 2
                        [] pair_separation = "medium" -> 10
                        [] pair_separation = "far" -> 30
                        [] OTHER -> randint(2, 30, r1)
        r2 == IF drawn THEN Draw(r1, 1) ELSE r1
    IN  IF context_length.none THEN Raised("TypeError", context, r2)
        ELSE
        LET num_filler == Max(separation, (context_length.n - 30) \div 10)
            context_parts ==
                <<Unit("role", pair)>>
                \o Fill("pairs_filler", choices(nf, separation, r2))
                \o <<Unit("relation", pair)>>
                \o Fill("pairs_filler",
                        choices(nf, num_filler - separation, Draw(r2, separation)))
            built == ContextManager_create(ContextManager_clear(context), "user", context_parts)
        IN  Generated([context |-> context_parts,
                       \* f"What does {person} {relation}?"
                       question |-> <<"W","h","a","t"," ","d","o","e","s"," ">>
                                    \o pairs[pair].person \o <<" ">>
                                    \o pairs[pair].relation \o <<"?">>,
                       expected_answer |-> pairs[pair].detail,
                       metadata |-> [context_length |-> get_context_length(built),
                                     num_sentences |-> Len(context_parts)]],
                      built, Draw(r2, num_filler))

\* a generator whose filler after the code is a sentence short
CodeQA_generate_test_case_ShortAfter(context_length, kw, r, context) ==
    LET snippet == choice(Len(code_snippets), r)
        r1 == Draw(r, 1)
        code_tokens == count_tokens(code_snippets[snippet].code_len)
    IN  IF context_length.none THEN Raised("TypeError", context, r1)
        ELSE
        LET num_filler == Max(5, (context_length.n - code_tokens) \div 10)
            filler_text == Fill("doc", choices(Len(doc_sentences), num_filler, r1))
            context_text == filler_text
                            \o <<Unit("header", 0), Unit("code", snippet)>>
                            \o Tail(filler_text)
            built == ContextManager_create(ContextManager_clear(context), "user", context_text)
        IN  Generated([context |-> context_text,
                       question |-> code_snippets[snippet].question,
                       expected_answer |-> code_snippets[snippet].answer,
                       metadata |-> [context_length |-> get_context_length(built),
                                     code_tokens |-> code_tokens]],
                      built, Draw(r1, num_filler))

\* CodeQABenchmark.generate_test_case
CodeQA_generate_test_case(context_length, kw, r, context) ==
    LET snippet == choice(Len(code_snippets), r)
        r1 == Draw(r, 1)
        code_tokens == count_tokens(code_snippets[snippet].code_len)
    IN  IF context_length.none THEN Raised("TypeError", context, r1)
        ELSE
        LET num_filler == Max(5, (context_length.n - code_tokens) \div 10)
            filler_text == Fill("doc", choices(Len(doc_sentences), num_filler, r1))
            context_text == filler_text
                            \o <<Unit("header", 0), Unit("code", snippet)>>
                            \o filler_text
            built == ContextManager_create(ContextManager_clear(context), "user", context_text)
        IN  Generated([context |-> context_text,
                       question |-> code_snippets[snippet].question,
                       expected_answer |-> code_snippets[snippet].answer,
                       metadata |-> [context_length |-> get_context_length(built),
                                     code_tokens |-> code_tokens]],
                      built, Draw(r1, num_filler))

DigitChars == <<"0","1","2","3","4","5","6","7","8","9">>

\* f"Section {i+1} contains important information about {title.lower()}."
\* for the i-th (from 1) selected section, whose index is s
fact_value(i, s) ==
    <<"S","e","c","t","i","o","n"," ">> \o <<DigitChars[i + 1]>>
    \o <<" ","c","o","n","t","a","i","n","s"," ","i","m","p","o","r","t","a","n","t"," ",
         "i","n","f","o","r","m","a","t","i","o","n"," ","a","b","o","u","t"," ">>
    \o Lower(document_sections[s].title) \o <<".">>

\* one section of the BrowseComp document: title, content, fact, three details
SectionUnits(i, s, r) ==
    <<Unit("title", s), Unit("content", s), [kind |-> "section_fact", id |-> s, pos |-> i]>>
    \o Fill("detail", choices(Len(detail_sentences), 3, r))

RECURSIVE SectionsUnits(_, _, _)
\* the units of the selected sections from the i-th on
SectionsUnits(selected, i, r) ==
    IF i > Len(selected) THEN <<>>
    ELSE SectionUnits(i, selected[i], r) \o SectionsUnits(selected, i + 1, Draw(r, 3))

\* a generator that answers with the first section of the document when some
\* section matches
BrowseComp_generate_test_case_FirstSection(context_length, kw, r, context) ==
    IF ~kw.num_sections.given /\ context_length.none THEN Raised("TypeError", context, r)
    ELSE
    LET num_sections == IF kw.num_sections.given THEN kw.num_sections.value
                        ELSE Max(3, Min(Len(document_sections), context_length.n \div 30))
        k == Min(num_sections, Len(document_sections))
    IN  IF k < 0 THEN Raised("ValueError", context, r)
        ELSE
        LET selected_sections == sample(Len(document_sections), k, r)
            r1 == Draw(r, k)
            document_text == SectionsUnits(selected_sections, 1, r1)
            r2 == Draw(r1, 3 * k)
            q == questions[choice(Len(questions), r2)]
            r3 == Draw(r2, 1)
            matching == {i \in 1..k :
                            Contains(Lower(q.expected_part),
                                     Lower(document_sections[selected_sections[i]].content))}
        IN  IF matching = {} /\ k = 0 THEN Raised("IndexError", context, r3)
            ELSE
            LET fact_key == choice(k, r3)
                expected_answer ==
                    IF matching # {}
                    THEN document_sections[selected_sections[1]].content
                    ELSE fact_value(fact_key, selected_sections[fact_key])
                built == ContextManager_create(ContextManager_clear(context), "user",
                                               document_text)
            IN  Generated([context |-> document_text,
                           question |-> q.question,
                           expected_answer |-> expected_answer,
                           metadata |-> [context_length |-> get_context_length(built),
                                         sections |-> [i \in 1..k |->
                                            document_sections[selected_sections[i]].title]]],
                          built, IF matching # {} THEN r3 ELSE Draw(r3, 1))

\* BrowseCompBenchmark.generate_test_case
BrowseComp_generate_test_case(context_length, kw, r, context) ==
    IF ~kw.num_sections.given /\ context_length.none THEN Raised("TypeError", context, r)
    ELSE
    LET num_sections == IF kw.num_sections.given THEN kw.num_sections.value
                        ELSE Max(3, Min(Len(document_sections), context_length.n \div 30))
        k == Min(num_sections, Len(document_sections))
    IN  IF k < 0 THEN Raised("ValueError", context, r)
        ELSE
        LET selected_sections == sample(Len(document_sections), k, r)
            r1 == Draw(r, k)
            document_text == SectionsUnits(selected_sections, 1, r1)
            r2 == Draw(r1, 3 * k)
            q == questions[choice(Len(questions), r2)]
            r3 == Draw(r2, 1)
            matching == {i \in 1..k :
                            Contains(Lower(q.expected_part),
                                     Lower(document_sections[selected_sections[i]].content))}
        IN  IF matching = {} /\ k = 0 THEN Raised("IndexError", context, r3)
            ELSE
            LET fact_key == choice(k, r3)
                expected_answer ==
                    IF matching # {}
                    THEN document_sections[selected_sections[SetMin(matching)]].content
                    ELSE fact_value(fact_key, selected_sections[fact_key])
                built == ContextManager_create(ContextManager_clear(context), "user",
                                               document_text)
            IN  Generated([context |-> document_text,
                           question |-> q.question,
                           expected_answer |-> expected_answer,
                           metadata |-> [context_length |-> get_context_length(built),
                                         sections |-> [i \in 1..k |->
                                            document_sections[selected_sections[i]].title]]],
                          built, IF matching # {} THEN r3 ELSE Draw(r3, 1))

\* benchmark.generate_test_case(context_length, **kwargs) dispatched on the
\* instance's class
generate_test_case(name, context_length, kw, r, context) ==
    CASE name = "needle_in_haystack" ->
            NeedleInHaystack_generate_test_case(context_length, kw, r, context)
      [] name = "oolong" -> OOLONG_generate_test_case(context_length, kw, r, context)
      [] name = "oolong_pairs" -> OOLONGPairs_generate_test_case(context_length, kw, r, context)
      [] name = "codeqa" -> CodeQA_generate_test_case(context_length, kw, r, context)
      [] name = "browsecomp" -> BrowseComp_generate_test_case(context_length, kw, r, context)

-----------------------------------------------------------------------------
(* Bounds of the model and the inputs drawn within them                    *)

\* a sweep has at most MaxLengths target lengths ...
MaxLengths == 2
\* ... and at most MaxTrials trials: Len(context_lengths) * num_runs
MaxTrials == 3
\* the scorers are applied to strings of at most MaxTokens of the Tokens
MaxTokens == 3

\* the target lengths requested: two integers and None
LengthValues == {IntLength(60), IntLength(120), NoneLength}

\* the keyword arguments passed to run_benchmark: none, or every option
SomeKwargs ==
    [needle_position |-> "start", fact_position |-> "end",
     pair_separation |-> "close", num_sections |-> [given |-> TRUE, value |-> -1]]

KwargsValues == {NoKwargs, SomeKwargs}

\* the states the random generator starts in
Seeds == {0, 5}

\* a str, or None
PyStr(text) == [none |-> FALSE, text |-> text]
PyNone == [none |-> TRUE, text |-> <<>>]

\* What one call of client.chat.completions.create can do: return a message
\* whose content is a text holding the expected answer, a text without it, or
\* None, or raise an exception e; each with the seconds the call took
\* (time.time() - start_time) and, when it raises, str(e)
ModelCalls(expected_answer) ==
    {[raises |-> FALSE, content |-> PyStr(<<"i","t","'","s"," ">> \o expected_answer),
      latency |-> Frac(1, 2), message |-> ""],
     [raises |-> FALSE, content |-> PyStr(<<"n","o">>),
      latency |-> Frac(2, 1), message |-> ""],
     [raises |-> FALSE, content |-> PyNone,
      latency |-> Frac(1, 2), message |-> ""],
     [raises |-> TRUE, content |-> PyNone,
      latency |-> Frac(1, 1), message |-> "Request timed out."]}

RECURSIVE SeqsUpTo(_, _)
\* the sequences over S of length at most n
SeqsUpTo(S, n) ==
    IF n = 0 THEN {<<>>}
    ELSE LET shorter == SeqsUpTo(S, n - 1)
         IN  shorter \cup {Append(q, x) : q \in {t \in shorter : Len(t) = n - 1}, x \in S}

\* the (context_lengths, num_runs) arguments of a sweep
Sweeps ==
    {sw \in SeqsUpTo(LengthValues, MaxLengths) \X (0..MaxTrials) :
        Len(sw[1]) * sw[2] <= MaxTrials}

-----------------------------------------------------------------------------
(* BenchmarkRunner                                                         *)

None == "None"

Event(op) == [op |-> op, li |-> li, run |-> run]

\* the exception leaves run_benchmark (and, outside run_all_benchmarks, the program)
Raise(exception) ==
    /\ pc' = "raised"
    /\ returned' = [exception |-> exception]

\* run_benchmark, lines 52-60: look the benchmark up, start the results
RunBenchmark ==
    /\ pc = "idle"
    /\ IF benchmark_name \notin BenchmarkNames
       THEN /\ Raise("ValueError")
            /\ UNCHANGED <<results, li>>
       ELSE /\ results' = <<>>
            /\ li' = 1
            /\ pc' = "length"
            /\ UNCHANGED returned
    /\ trace' = <<>>
    /\ UNCHANGED <<benchmark_name, context_lengths, num_runs, kwargs, run, length_results,
                   test_case, messages, model_response, success, error, elapsed_time,
                   context_manager, rng, all_results, todo, fn>>

\* the outer for loop takes the next target length, lines 62-68
EnterLength ==
    /\ pc = "length"
    /\ li <= Len(context_lengths)
    /\ length_results' = [context_length |-> context_lengths[li], runs |-> <<>>]
    /\ run' = 0
    /\ pc' = "run"
    /\ UNCHANGED <<benchmark_name, context_lengths, num_runs, kwargs, li, results,
                   test_case, messages, model_response, success, error, elapsed_time,
                   context_manager, rng, returned, all_results, todo, trace, fn>>

\* the inner loop starts a trial, lines 70-81: generate the test case, read the
\* messages off the benchmark's ContextManager, append the question
Generate ==
    /\ pc = "run"
    /\ run < num_runs
    /\ LET g == generate_test_case(benchmark_name, context_lengths[li], kwargs, rng,
                                   context_manager[benchmark_name])
       IN  /\ rng' = g.rng
           /\ context_manager' = [context_manager EXCEPT ![benchmark_name] = g.context]
           /\ trace' = Append(trace, Event("generate"))
           /\ IF g.raised
              THEN /\ Raise(g.error)
                   /\ UNCHANGED <<test_case, messages>>
              ELSE /\ test_case' = g.test_case
                   /\ messages' = Append(ContextManager_get_messages(g.context),
                                         [role |-> "user", content |-> g.test_case.question])
                   /\ pc' = "call"
                   /\ UNCHANGED returned
    /\ UNCHANGED <<benchmark_name, context_lengths, num_runs, kwargs, li, run, results,
                   length_results, model_response, success, error, elapsed_time,
                   all_results, todo, fn>>

\* the model call, lines 84-98: it returns a content or raises; either way the
\* elapsed time is taken
CallModel ==
    /\ pc = "call"
    /\ \E call \in ModelCalls(test_case.expected_answer) :
        /\ elapsed_time' = call.latency
        /\ IF call.raises
           THEN /\ model_response' = PyStr(<<>>)
                /\ success' = FALSE
                /\ error' = call.message
           ELSE /\ model_response' = call.content
                /\ success' = TRUE
                /\ error' = None
    /\ trace' = Append(trace, Event("invoke"))
    /\ pc' = "score"
    /\ UNCHANGED <<benchmark_name, context_lengths, num_runs, kwargs, li, run, results,
                   length_results, test_case, messages, context_manager, rng, returned,
                   all_results, todo, fn>>

\* an evaluation that scores the response whether or not the call succeeded
evaluation_AlwaysScored ==
    evaluate(benchmark_name, model_response.text, test_case.expected_answer)

\* lines 101-112: the evaluation of the trial, when the response is a str
evaluation ==
    IF success
    THEN evaluate(benchmark_name, model_response.text, test_case.expected_answer)
    ELSE [correct |-> FALSE, score |-> Zero, error |-> error]

\* a run record numbered from 0
run_result_FromZero ==
    [run |-> run,
     test_case |-> [question |-> test_case.question,
                    expected_answer |-> test_case.expected_answer,
                    metadata |-> test_case.metadata],
     response |-> model_response.text,
     evaluation |-> evaluation,
     latency |-> elapsed_time,
     success |-> success]

\* lines 114-125: the record of the trial; the loop variable run counts from 0
run_result ==
    [run |-> run + 1,
     test_case |-> [question |-> test_case.question,
                    expected_answer |-> test_case.expected_answer,
                    metadata |-> test_case.metadata],
     response |-> model_response.text,
     evaluation |-> evaluation,
     latency |-> elapsed_time,
     success |-> success]

\* an append that keeps only the records of successful calls
runs_append_SuccessfulOnly(runs, record) ==
    IF record.success THEN Append(runs, record) ELSE runs

\* line 127: length_results["runs"].append(run_result)
runs_append(runs, record) == Append(runs, record)

\* lines 100-128: evaluate a successful call, build the run record, append it
Score ==
    /\ pc = "score"
    /\ IF success /\ model_response.none
       THEN \* evaluate calls response.lower() / response.upper() on None
            /\ Raise("AttributeError")
            /\ trace' = Append(trace, Event("evaluate"))
            /\ UNCHANGED <<length_results, run>>
       ELSE /\ length_results' =
                  [length_results EXCEPT !.runs = runs_append(@, run_result)]
            /\ trace' = IF success
                        THEN trace \o <<Event("evaluate"), Event("record")>>
                        ELSE Append(trace, Event("record"))
            /\ run' = run + 1
            /\ pc' = "run"
            /\ UNCHANGED returned
    /\ UNCHANGED <<benchmark_name, context_lengths, num_runs, kwargs, li, results,
                   test_case, messages, model_response, success, error, elapsed_time,
                   context_manager, rng, all_results, todo, fn>>

Successful(runs) == SelectSeq(runs, LAMBDA r : r.success)

\* a summary that averages over every run, failed ones included
Summary_OverAllRuns(runs, n) ==
    [avg_score |-> MeanOrZero([i \in 1..Len(runs) |-> runs[i].evaluation.score]),
     avg_latency |-> MeanOrZero([i \in 1..Len(runs) |-> runs[i].latency]),
     success_rate |-> Frac(Len(Successful(runs)), n)]

\* lines 130-138
Summary(runs, n) ==
    LET scores == [i \in 1..Len(Successful(runs)) |-> Successful(runs)[i].evaluation.score]
        latencies == [i \in 1..Len(Successful(runs)) |-> Successful(runs)[i].latency]
    IN  [avg_score |-> MeanOrZero(scores),
         avg_latency |-> MeanOrZero(latencies),
         success_rate |-> Frac(Len(Successful(runs)), n)]

\* the inner loop is over, lines 130-140: summarise the length, append it
Summarize ==
    /\ pc = "run"
    /\ run >= num_runs
    /\ trace' = Append(trace, Event("summarize"))
    /\ IF num_runs = 0
       THEN \* success_rate divides by num_runs
            /\ Raise("ZeroDivisionError")
            /\ UNCHANGED <<results, li>>
       ELSE /\ results' = Append(results,
                    [context_length |-> length_results.context_length,
                     runs |-> length_results.runs,
                     summary |-> Summary(length_results.runs, num_runs)])
            /\ li' = li + 1
            /\ pc' = "length"
            /\ UNCHANGED returned
    /\ UNCHANGED <<benchmark_name, context_lengths, num_runs, kwargs, run, length_results,
                   test_case, messages, model_response, success, error, elapsed_time,
                   context_manager, rng, all_results, todo, fn>>

\* the outer loop is over, line 142; of what is returned the model's name, a
\* constant of the runner, is left out (as in run_all_benchmarks)
Return ==
    /\ pc = "length"
    /\ li > Len(context_lengths)
    /\ returned' = [benchmark |-> benchmark_name, results |-> results]
    /\ pc' = "done"
    /\ UNCHANGED <<benchmark_name, context_lengths, num_runs, kwargs, li, run, results,
                   length_results, test_case, messages, model_response, success, error,
                   elapsed_time, context_manager, rng, all_results, todo, trace, fn>>

NoTestCase == [context |-> <<>>, question |-> <<>>, expected_answer |-> <<>>, metadata |-> <<>>]

\* the locals before they are first assigned
InitLocals ==
    /\ li = 0
    /\ run = 0
    /\ results = <<>>
    /\ length_results = [context_length |-> NoneLength, runs |-> <<>>]
    /\ test_case = NoTestCase
    /\ messages = <<>>
    /\ model_response = PyNone
    /\ success = FALSE
    /\ error = None
    /\ elapsed_time = Zero
    /\ returned = <<>>
    /\ trace = <<>>

\* The benchmark instances live as long as the runner (lines 33-39), so a sweep
\* finds what earlier sweeps left in them: nothing, when the runner was just
\* constructed, or the document of the last generate_test_case call on the
\* instance
Histories(name) ==
    LET fresh == [b \in BenchmarkNames |-> <<>>]
    IN  {[rng |-> seed, context_manager |-> fresh] : seed \in Seeds}
        \cup
        {[rng |-> g.rng, context_manager |-> [fresh EXCEPT ![name] = g.context]] :
            g \in {generate_test_case(b, IntLength(60), NoKwargs, 0, <<>>) :
                      b \in {name} \cap BenchmarkNames}}

\* a BenchmarkRunner about to be asked for one sweep:
\* run_benchmark(benchmark_name, context_lengths, num_runs, **kwargs)
Init ==
    /\ pc = "idle"
    /\ benchmark_name \in BenchmarkNames \cup {"unknown"}
    /\ \E sw \in Sweeps : context_lengths = sw[1] /\ num_runs = sw[2]
    /\ kwargs \in KwargsValues
    /\ \E h \in Histories(benchmark_name) :
          rng = h.rng /\ context_manager = h.context_manager
    /\ all_results = <<>>
    /\ todo = <<>>
    /\ fn = <<>>
    /\ InitLocals

Next ==
    \/ RunBenchmark
    \/ EnterLength
    \/ Generate
    \/ CallModel
    \/ Score
    \/ Summarize
    \/ Return

Spec == Init /\ [][Next]_vars

-----------------------------------------------------------------------------
(* BenchmarkRunner.run_all_benchmarks                                      *)

\* run_all_benchmarks is explored for the sweeps in which every benchmark
\* completes at most one trial
AllSweeps ==
    {sw \in Sweeps : Len(SelectSeq(sw[1], LAMBDA l : ~l.none)) * sw[2] <= 1}

\* lines 146-149: the empty mapping; the loop will take self.benchmarks.keys()
\* in the order the constructor inserted them
RunAllBenchmarks ==
    /\ pc = "all_idle"
    /\ all_results' = <<>>
    /\ todo' = Benchmarks
    /\ pc' = "all_next"
    /\ UNCHANGED <<benchmark_name, context_lengths, num_runs, kwargs, li, run, results,
                   length_results, test_case, messages, model_response, success, error,
                   elapsed_time, context_manager, rng, returned, trace, fn>>

\* lines 151-157: the loop takes the next name and calls
\* self.run_benchmark(benchmark_name, context_lengths, num_runs)
AllNext ==
    /\ pc = "all_next"
    /\ todo # <<>>
    /\ benchmark_name' = Head(todo)
    /\ pc' = "idle"
    /\ UNCHANGED <<context_lengths, num_runs, kwargs, li, run, results, length_results,
                   test_case, messages, model_response, success, error, elapsed_time,
                   context_manager, rng, returned, all_results, todo, trace, fn>>

\* line 158: run_benchmark returned
AllStore ==
    /\ pc = "done"
    /\ all_results' = all_results @@ (benchmark_name :> returned)
    /\ todo' = Tail(todo)
    /\ pc' = "all_next"
    /\ UNCHANGED <<benchmark_name, context_lengths, num_runs, kwargs, li, run, results,
                   length_results, test_case, messages, model_response, success, error,
                   elapsed_time, context_manager, rng, returned, trace, fn>>

\* a handler that stores the error and gives up on the remaining benchmarks
AllCatch_GivesUp ==
    /\ pc = "raised"
    /\ all_results' = all_results @@ (benchmark_name :> [error |-> returned.exception])
    /\ todo' = <<>>
    /\ pc' = "all_next"
    /\ UNCHANGED <<benchmark_name, context_lengths, num_runs, kwargs, li, run, results,
                   length_results, test_case, messages, model_response, success, error,
                   elapsed_time, context_manager, rng, returned, trace, fn>>

\* lines 159-161: run_benchmark raised an Exception
AllCatch ==
    /\ pc = "raised"
    /\ all_results' = all_results @@ (benchmark_name :> [error |-> returned.exception])
    /\ todo' = Tail(todo)
    /\ pc' = "all_next"
    /\ UNCHANGED <<benchmark_name, context_lengths, num_runs, kwargs, li, run, results,
                   length_results, test_case, messages, model_response, success, error,
                   elapsed_time, context_manager, rng, returned, trace, fn>>

\* line 163: the loop is over
AllReturn ==
    /\ pc = "all_next"
    /\ todo = <<>>
    /\ returned' = [benchmarks |-> all_results]
    /\ pc' = "all_done"
    /\ UNCHANGED <<benchmark_name, context_lengths, num_runs, kwargs, li, run, results,
                   length_results, test_case, messages, model_response, success, error,
                   elapsed_time, context_manager, rng, all_results, todo, trace, fn>>

\* a BenchmarkRunner just constructed, about to be asked for
\* run_all_benchmarks(context_lengths, num_runs)
InitAll ==
    /\ pc = "all_idle"
    /\ benchmark_name = ""
    /\ \E sw \in AllSweeps : context_lengths = sw[1] /\ num_runs = sw[2]
    /\ kwargs = NoKwargs
    /\ rng \in Seeds
    /\ context_manager = [b \in BenchmarkNames |-> <<>>]
    /\ all_results = <<>>
    /\ todo = <<>>
    /\ fn = <<>>
    /\ InitLocals

NextAll ==
    \/ RunAllBenchmarks
    \/ AllNext
    \/ RunBenchmark
    \/ EnterLength
    \/ Generate
    \/ CallModel
    \/ Score
    \/ Summarize
    \/ Return
    \/ AllStore
    \/ AllCatch
    \/ AllReturn

SpecAll == InitAll /\ [][NextAll]_vars

-----------------------------------------------------------------------------
(* The scorers applied to drawn strings                                    *)

\* the pieces the drawn strings are made of: whitespace, a short lower-case
\* word, a capitalised word of more than four characters
Tokens == {<<" ">>, <<"a">>, <<"L","o","n","g","e","r">>}

RECURSIVE Concat(_)
Concat(seqs) == IF seqs = <<>> THEN <<>> ELSE Head(seqs) \o Concat(Tail(seqs))

Strings == {Concat(q) : q \in SeqsUpTo(Tokens, MaxTokens)}

\* "the code is "
TheCodeIs == <<"t","h","e"," ","c","o","d","e"," ","i","s"," ">>

\* answers to a question about a section: two words of the Results section,
\* a word of none, nothing
SectionResponses ==
    {<<"s","i","g","n","i","f","i","c","a","n","t"," ","p","r","o","g","r","e","s","s">>,
     <<"u","n","k","n","o","w","n">>,
     <<>>}

\* an expected answer of eight key terms and a response that runs seven of
\* them together
EightTerms == <<"a","l","p","h","a"," ","b","r","a","v","o"," ","d","e","l","t","a"," ","g","a","m","m","a"," ","k","a","p","p","a"," ","s","i","g","m","a"," ","t","h","e","t","a"," ","o","m","e","g","a">>

SevenOfEight == <<"a","l","p","h","a","b","r","a","v","o","d","e","l","t","a","g","a","m","m","a","k","a","p","p","a","s","i","g","m","a","t","h","e","t","a">>

\* what a model may answer when asked for the code, besides the drawn strings:
\* a sentence ending in the code, the code in lower case, the code short of its
\* last character, a text sharing no character with any of the Codes
NeedleResponses(code) ==
    Strings \cup {TheCodeIs \o code, Lower(code), SubSeq(code, 1, Len(code) - 1), <<"n","o">>}

\* the calls of evaluate: every scorer on the drawn strings, the needle scorer
\* on generated codes, the BrowseComp scorer on section contents and at its
\* threshold
EvaluateCalls ==
    {[name |-> name, response |-> response, expected |-> expected] :
        name \in BenchmarkNames, response \in Strings, expected \in Strings}
    \cup
    {[name |-> "needle_in_haystack", response |-> response, expected |-> Codes[c]] :
        c \in 1..Len(Codes), response \in UNION {NeedleResponses(Codes[d]) : d \in 1..Len(Codes)}}
    \cup
    {[name |-> "browsecomp", response |-> response,
      expected |-> document_sections[i].content] :
        i \in 1..Len(document_sections), response \in SectionResponses}
    \cup
    {[name |-> "browsecomp", response |-> SevenOfEight, expected |-> EightTerms]}

\* evaluate(response, expected) is about to be called on one of the instances
InitEval ==
    /\ \E call \in EvaluateCalls :
          fn = [op |-> "evaluate", name |-> call.name, response |-> call.response,
                expected |-> call.expected, returned |-> <<>>, done |-> FALSE]
    /\ pc = "fn"
    /\ benchmark_name = ""
    /\ context_lengths = <<>>
    /\ num_runs = 0
    /\ kwargs = NoKwargs
    /\ rng = 0
    /\ context_manager = [b \in BenchmarkNames |-> <<>>]
    /\ all_results = <<>>
    /\ todo = <<>>
    /\ InitLocals

\* the call returns
Evaluate ==
    /\ pc = "fn"
    /\ fn.op = "evaluate"
    /\ ~fn.done
    /\ fn' = [fn EXCEPT !.returned = evaluate(fn.name, fn.response, fn.expected),
                        !.done = TRUE]
    /\ UNCHANGED runnerVars

NextEval == Evaluate

SpecEval == InitEval /\ [][NextEval]_vars

-----------------------------------------------------------------------------
(* The generators called on drawn target lengths and options               *)

\* the integer target lengths: negative, zero, below every floor, and above
\* the floors of the generators
GenLengths ==
    {IntLength(-50), IntLength(0), IntLength(10), IntLength(60), IntLength(300),
     IntLength(620)}

\* the option a generator takes, passed or left to its default; a placement
\* may be any string
KwOptions(name) ==
    CASE name = "needle_in_haystack" ->
            {[NoKwargs EXCEPT !.needle_position = o] :
                o \in {"absent", "start", "middle", "end", "random", "elsewhere"}}
      [] name = "oolong" ->
            {[NoKwargs EXCEPT !.fact_position = o] :
                o \in {"absent", "start", "middle", "end", "random", "elsewhere"}}
      [] name = "oolong_pairs" ->
            {[NoKwargs EXCEPT !.pair_separation = o] :
                o \in {"absent", "close", "medium", "far", "random", "elsewhere"}}
      [] name = "codeqa" -> {NoKwargs}
      [] name = "browsecomp" ->
            {NoKwargs} \cup {[NoKwargs EXCEPT !.num_sections = [given |-> TRUE, value |-> n]] :
                                n \in {1, Len(document_sections)}}

\* an instance on which generate_test_case is about to be called, with one
\* option, again and again; fn.calls keeps the last two calls
InitGen ==
    /\ \E name \in BenchmarkNames :
          \E kw \in KwOptions(name) :
              fn = [op |-> "generate", name |-> name, kw |-> kw, calls |-> <<>>]
    /\ pc = "fn"
    /\ benchmark_name = ""
    /\ context_lengths = <<>>
    /\ num_runs = 0
    /\ kwargs = NoKwargs
    /\ rng \in RngStates
    /\ context_manager = [b \in BenchmarkNames |-> <<>>]
    /\ all_results = <<>>
    /\ todo = <<>>
    /\ InitLocals

\* one call generate_test_case(context_length, **kw) on the instance
GenerateTestCase ==
    /\ pc = "fn"
    /\ fn.op = "generate"
    /\ \E context_length \in GenLengths :
          \E g \in {generate_test_case(fn.name, context_length, fn.kw, rng,
                                       context_manager[fn.name])} :
              LET call == [context_length |-> context_length,
                           raised |-> g.raised,
                           test_case |-> IF g.raised THEN NoTestCase ELSE g.test_case]
              IN  /\ fn' = [fn EXCEPT !.calls = IF @ = <<>> THEN <<call>>
                                               ELSE <<@[Len(@)], call>>]
                  /\ rng' = g.rng
                  /\ context_manager' = [context_manager EXCEPT ![fn.name] = g.context]
    /\ UNCHANGED <<pc, benchmark_name, context_lengths, num_runs, kwargs, li, run, results,
                   length_results, test_case, messages, model_response, success, error,
                   elapsed_time, returned, all_results, todo, trace>>

NextGen == GenerateTestCase

SpecGen == InitGen /\ [][NextGen]_vars

-----------------------------------------------------------------------------
(* ContextManager called directly (specification SpecStore): create,       *)
(* update, delete and clear on one store, with drawn arguments.  A dict is  *)
(* the sequence of its <<key, value>> items.                                *)

\* a role argument: a str, or None
NoRole == [none |-> TRUE, text |-> ""]
Role(text) == [none |-> FALSE, text |-> text]

\* a metadata argument: a dict, or None
NoMetadata == [none |-> TRUE, dict |-> <<>>]
Metadata(dict) == [none |-> FALSE, dict |-> dict]

RECURSIVE dict_update(_, _)
\* dict.update(other): the values of the keys of other replaced or added
dict_update(dict, other) ==
    IF other = <<>> THEN dict
    ELSE LET item == Head(other)
             at == {i \in 1..Len(dict) : dict[i][1] = item[1]}
         IN  dict_update(IF at = {} THEN Append(dict, item)
                         ELSE [dict EXCEPT ![SetMin(at)] = item],
                         Tail(other))

\* list[start:end]: the positions (from 1) of a list of n elements the slice
\* covers; start and end are integers or None
SlicePositions(n, start, end) ==
    LET clamp(i) == IF i < 0 THEN Max(0, n + i) ELSE Min(i, n)
        lo == IF start.none THEN 0 ELSE clamp(start.n)
        hi == IF end.none THEN n ELSE clamp(end.n)
    IN  (lo + 1)..hi

\* the elements of seq at the positions not in removed, in order
RECURSIVE Without(_, _, _)
Without(seq, removed, i) ==
    IF i > Len(seq) THEN <<>>
    ELSE (IF i \in removed THEN <<>> ELSE <<seq[i]>>) \o Without(seq, removed, i + 1)

\* ContextManager.read(index=index): the entry, or None
ContextManager_read(context, index) ==
    IF 0 <= index /\ index < Len(context)
    THEN [none |-> FALSE, entry |-> context[index + 1]]
    ELSE [none |-> TRUE, entry |-> [role |-> "", content |-> <<>>, metadata |-> <<>>]]

\* ContextManager.update: `if role:`, `if content:` and `if metadata:` skip
\* None and the empty value alike
ContextManager_update(context, index, role, content, metadata) ==
    IF ~(0 <= index /\ index < Len(context))
    THEN [context |-> context, returned |-> FALSE]
    ELSE LET entry == context[index + 1]
             updated ==
                [role |-> IF ~role.none /\ role.text # "" THEN role.text ELSE entry.role,
                 content |-> IF ~content.none /\ content.text # <<>>
                             THEN content.text ELSE entry.content,
                 metadata |-> IF ~metadata.none /\ metadata.dict # <<>>
                              THEN dict_update(entry.metadata, metadata.dict)
                              ELSE entry.metadata]
         IN  [context |-> [context EXCEPT ![index + 1] = updated], returned |-> TRUE]

\* a delete by role that reports the entries it kept
ContextManager_delete_CountsKept(context, index, start, end, role) ==
    IF ~index.none
    THEN IF 0 <= index.n /\ index.n < Len(context)
         THEN [context |-> Without(context, {index.n + 1}, 1), returned |-> 1]
         ELSE [context |-> context, returned |-> 0]
    ELSE IF ~start.none \/ ~end.none
    THEN LET removed == SlicePositions(Len(context), start, end)
         IN  [context |-> Without(context, removed, 1), returned |-> Cardinality(removed)]
    ELSE IF ~role.none /\ role.text # ""
    THEN LET removed == {i \in 1..Len(context) : context[i].role = role.text}
         IN  [context |-> Without(context, removed, 1),
              returned |-> Len(context) - Cardinality(removed)]
    ELSE [context |-> context, returned |-> 0]

\* ContextManager.delete
ContextManager_delete(context, index, start, end, role) ==
    IF ~index.none
    THEN IF 0 <= index.n /\ index.n < Len(context)
         THEN [context |-> Without(context, {index.n + 1}, 1), returned |-> 1]
         ELSE [context |-> context, returned |-> 0]
    ELSE IF ~start.none \/ ~end.none
    THEN LET removed == SlicePositions(Len(context), start, end)
         IN  [context |-> Without(context, removed, 1), returned |-> Cardinality(removed)]
    ELSE IF ~role.none /\ role.text # ""
    THEN LET removed == {i \in 1..Len(context) : context[i].role = role.text}
         IN  [context |-> Without(context, removed, 1), returned |-> Cardinality(removed)]
    ELSE [context |-> context, returned |-> 0]

\* ContextManager.size
ContextManager_size(context) == Len(context)

\* the most create calls between two clear calls
MaxCreates == 3

\* the roles and contents create is called with
StoreRoles == {"user", "assistant"}
StoreEntries == {<<"user", <<"H","e","l","l","o">> >>, <<"assistant", <<"H","i">> >>}

\* the integers an index, a start or an end is drawn from: before, in and
\* after the store
StoreIndexes == (-1)..MaxCreates

\* the starts and the ends of the ranges delete is called with
RangeStarts == {NoneLength, IntLength(0), IntLength(1)}
RangeEnds == {NoneLength, IntLength(-1), IntLength(2)}

\* the (role, content, metadata) arguments update is called with
UpdateArguments ==
    {<<NoRole, c, NoMetadata>> : c \in {PyNone, PyStr(<<>>), PyStr(<<"H","i">>)}}
    \cup {<<Role(""), PyNone, Metadata(<<>>)>>,
          <<Role("assistant"), PyNone, Metadata(<< <<"k", 1>> >>)>>}

\* the (index, start, end, role) arguments delete is called with
DeleteArguments ==
    {<<IntLength(i), NoneLength, NoneLength, NoRole>> : i \in StoreIndexes}
    \cup {<<NoneLength, s, e, NoRole>> : s \in RangeStarts, e \in RangeEnds}
    \cup {<<NoneLength, NoneLength, NoneLength, r>> :
            r \in {NoRole, Role("")} \cup {Role(t) : t \in StoreRoles}}
    \cup {<<IntLength(0), IntLength(0), NoneLength, Role("user")>>,
          <<NoneLength, IntLength(1), NoneLength, Role("user")>>}

\* no call made yet
NoCall == [name |-> "", returned |-> 0, index |-> NoneLength, content |-> PyNone,
           only_content |-> FALSE]

\* a new ContextManager; fn.creates and fn.deleted count the create calls and
\* sum what delete returned since the store was new or last cleared, fn.call
\* is the last call with what it returned, fn.before the store it was made on
InitStore ==
    /\ fn = [op |-> "store", context |-> <<>>, creates |-> 0, deleted |-> 0,
             call |-> NoCall, before |-> <<>>]
    /\ pc = "fn"
    /\ benchmark_name = ""
    /\ context_lengths = <<>>
    /\ num_runs = 0
    /\ kwargs = NoKwargs
    /\ rng = 0
    /\ context_manager = [b \in BenchmarkNames |-> <<>>]
    /\ all_results = <<>>
    /\ todo = <<>>
    /\ InitLocals

StoreUnchanged ==
    UNCHANGED <<pc, benchmark_name, context_lengths, num_runs, kwargs, li, run, results,
                length_results, test_case, messages, model_response, success, error,
                elapsed_time, context_manager, rng, returned, all_results, todo, trace>>

\* cm.create(role, content)
CallCreate ==
    /\ pc = "fn" /\ fn.op = "store"
    /\ fn.creates < MaxCreates
    /\ \E entry \in StoreEntries :
          LET role == entry[1]
              content == entry[2]
          IN
          fn' = [fn EXCEPT !.context = ContextManager_create(fn.context, role, content),
                           !.creates = @ + 1,
                           !.call = [NoCall EXCEPT !.name = "create",
                                                   !.returned = Len(fn.context),
                                                   !.content = PyStr(content)],
                           !.before = fn.context]
    /\ StoreUnchanged

\* cm.update(index, role=..., content=..., metadata=...)
CallUpdate ==
    /\ pc = "fn" /\ fn.op = "store"
    /\ \E index \in StoreIndexes, arguments \in UpdateArguments :
          LET u == ContextManager_update(fn.context, index, arguments[1], arguments[2],
                                         arguments[3])
          IN  fn' = [fn EXCEPT !.context = u.context,
                               !.call = [name |-> "update",
                                         returned |-> IF u.returned THEN 1 ELSE 0,
                                         index |-> IntLength(index),
                                         content |-> arguments[2],
                                         only_content |-> arguments[1] = NoRole
                                                          /\ arguments[3] = NoMetadata],
                               !.before = fn.context]
    /\ StoreUnchanged

\* cm.delete(index=..., start=..., end=..., role=...)
CallDelete ==
    /\ pc = "fn" /\ fn.op = "store"
    /\ \E arguments \in DeleteArguments :
          LET d == ContextManager_delete(fn.context, arguments[1], arguments[2],
                                         arguments[3], arguments[4])
          IN  fn' = [fn EXCEPT !.context = d.context,
                               !.deleted = @ + d.returned,
                               !.call = [NoCall EXCEPT !.name = "delete",
                                                       !.returned = d.returned,
                                                       !.index = arguments[1]],
                               !.before = fn.context]
    /\ StoreUnchanged

\* cm.clear()
CallClear ==
    /\ pc = "fn" /\ fn.op = "store"
    /\ fn' = [fn EXCEPT !.context = ContextManager_clear(fn.context),
                        !.creates = 0,
                        !.deleted = 0,
                        !.call = [NoCall EXCEPT !.name = "clear"],
                        !.before = fn.context]
    /\ StoreUnchanged

NextStore == CallCreate \/ CallUpdate \/ CallDelete \/ CallClear

SpecStore == InitStore /\ [][NextStore]_vars

-----------------------------------------------------------------------------
(* Smithers.chat called again and again on one assistant (specification    *)
(* SpecChat).  The contents of its store are strs or None.                 *)

\* the most chat calls made on one assistant
MaxChats == 3

\* the messages chat is called with
ChatMessages == {<<"H","e","l","l","o">>, <<"H","i">>}

\* What client.chat.completions.create can do: return a reply whose content is
\* a text or None, or raise an exception e, message being str(e)
ChatCalls ==
    {[raises |-> FALSE, content |-> PyStr(<<"H","i">>), message |-> <<>>],
     [raises |-> FALSE, content |-> PyNone, message |-> <<>>],
     [raises |-> TRUE, content |-> PyNone,
      message |-> <<"t","i","m","e","d"," ","o","u","t">>]}

\* "Error: "
ErrorPrefix == <<"E","r","r","o","r",":"," ">>

\* a chat that stores the user's message before it calls the model
Smithers_chat_StoresFirst(context, message, use_context, call) ==
    LET chat_messages ==
            Append(IF use_context /\ ContextManager_size(context) > 0
                   THEN ContextManager_get_messages(context) ELSE <<>>,
                   [role |-> "user", content |-> PyStr(message)])
        stored == IF use_context
                  THEN ContextManager_create(context, "user", PyStr(message))
                  ELSE context
    IN  IF call.raises
        THEN [context |-> stored, messages |-> chat_messages,
              returned |-> PyStr(ErrorPrefix \o call.message)]
        ELSE [context |-> IF use_context
                          THEN ContextManager_create(stored, "assistant", call.content)
                          ELSE context,
              messages |-> chat_messages,
              returned |-> call.content]

\* Smithers.chat, lines 30-52: the store after the call, the messages sent to
\* the model and what chat returns
Smithers_chat(context, message, use_context, call) ==
    LET chat_messages ==
            Append(IF use_context /\ ContextManager_size(context) > 0
                   THEN ContextManager_get_messages(context) ELSE <<>>,
                   [role |-> "user", content |-> PyStr(message)])
    IN  IF call.raises
        THEN [context |-> context, messages |-> chat_messages,
              returned |-> PyStr(ErrorPrefix \o call.message)]
        ELSE [context |-> IF use_context
                          THEN ContextManager_create(
                                   ContextManager_create(context, "user", PyStr(message)),
                                   "assistant", call.content)
                          ELSE context,
              messages |-> chat_messages,
              returned |-> call.content]

\* a new Smithers; fn.chats counts the chat calls, fn.successes those with
\* use_context whose model call returned, fn.call is the last call and
\* fn.before the store it was made on
InitChat ==
    /\ fn = [op |-> "chat", context |-> <<>>, chats |-> 0, successes |-> 0,
             call |-> [message |-> <<>>, use_context |-> FALSE, raises |-> FALSE,
                       content |-> PyNone, messages |-> <<>>, returned |-> PyNone],
             before |-> <<>>]
    /\ pc = "fn"
    /\ benchmark_name = ""
    /\ context_lengths = <<>>
    /\ num_runs = 0
    /\ kwargs = NoKwargs
    /\ rng = 0
    /\ context_manager = [b \in BenchmarkNames |-> <<>>]
    /\ all_results = <<>>
    /\ todo = <<>>
    /\ InitLocals

\* smithers.chat(message, use_context)
Chat ==
    /\ pc = "fn" /\ fn.op = "chat"
    /\ fn.chats < MaxChats
    /\ \E message \in ChatMessages, use_context \in BOOLEAN, call \in ChatCalls :
          LET c == Smithers_chat(fn.context, message, use_context, call)
          IN  fn' = [fn EXCEPT !.context = c.context,
                               !.chats = @ + 1,
                               !.successes = IF use_context /\ ~call.raises THEN @ + 1 ELSE @,
                               !.call = [message |-> message, use_context |-> use_context,
                                         raises |-> call.raises, content |-> call.content,
                                         messages |-> c.messages, returned |-> c.returned],
                               !.before = fn.context]
    /\ StoreUnchanged

NextChat == Chat

SpecChat == InitChat /\ [][NextChat]_vars

-----------------------------------------------------------------------------
(* Properties of run_benchmark (specification Spec)                        *)

\* C1. When run_benchmark finishes a sweep asked for num_runs >= 1, what it
\* returns has one entry for each requested length, and each entry's runs
\* holds exactly num_runs records, the j-th being the record of repetition j.
C1_EveryRepetitionRecorded ==
    (pc = "done" /\ num_runs >= 1) =>
        /\ Len(returned.results) = Len(context_lengths)
        /\ \A k \in 1..Len(returned.results) :
              /\ Len(returned.results[k].runs) = num_runs
              /\ \A j \in 1..num_runs : returned.results[k].runs[j].run = j

\* a finished sweep with several repetitions, some failed and some successful
C1_Witness ==
    /\ pc = "done"
    /\ num_runs >= 2
    /\ \E k \in 1..Len(returned.results) :
          \E i, j \in 1..Len(returned.results[k].runs) :
              /\ returned.results[k].runs[i].success
              /\ ~returned.results[k].runs[j].success

\* C2. When the model call of a trial raises, success is false and the response
\* is empty; the trial's record is then appended with response "", the
\* evaluation {correct: false, score: 0.0, error: message} and success false,
\* evaluate is not called for the trial (the only event is the record), and the
\* sweep goes on with the next repetition.
C2_FailedCallRecorded ==
    [][/\ (pc = "call" /\ error' # None) =>
              (~success' /\ model_response' = PyStr(<<>>) /\ pc' = "score")
       /\ (pc = "score" /\ ~success) =>
              /\ length_results'.runs =
                     Append(length_results.runs,
                            [run |-> run + 1,
                             test_case |-> [question |-> test_case.question,
                                            expected_answer |-> test_case.expected_answer,
                                            metadata |-> test_case.metadata],
                             response |-> <<>>,
                             evaluation |-> [correct |-> FALSE, score |-> <<0, 1>>,
                                             error |-> error],
                             latency |-> elapsed_time,
                             success |-> FALSE])
              /\ trace' = Append(trace, [op |-> "record", li |-> li, run |-> run])
              /\ pc' = "run"
              /\ run' = run + 1]_vars

\* a trial whose call raised is on record, its message kept, and the next
\* repetition's model call is about to be made
C2_Witness ==
    /\ pc = "call"
    /\ run >= 1
    /\ ~length_results.runs[run].success
    /\ length_results.runs[run].evaluation.error = "Request timed out."

RECURSIVE SuccessfulTotal(_, _, _)
\* the sum of value[j] over the successful ones of the first n runs
SuccessfulTotal(runs, value, n) ==
    IF n = 0 THEN <<0, 1>>
    ELSE RatAdd(SuccessfulTotal(runs, value, n - 1),
                IF runs[n].success THEN value[n] ELSE <<0, 1>>)

\* C3. In every length's summary, avg_score and avg_latency are the means of
\* the score and the latency over the successful runs only (0.0 when there is
\* none) and success_rate is the number of successful runs over num_runs; with
\* three runs of which the only successful one scored 0.8, avg_score is 0.8 and
\* success_rate is 1/3.
C3_SummaryOverSuccessfulRuns ==
    \A k \in 1..Len(results) :
        LET runs == results[k].runs
            summary == results[k].summary
            successes == Cardinality({j \in 1..Len(runs) : runs[j].success})
            scores == [j \in 1..Len(runs) |-> runs[j].evaluation.score]
            latencies == [j \in 1..Len(runs) |-> runs[j].latency]
        IN  /\ summary.success_rate[1] * num_runs = successes * summary.success_rate[2]
            /\ IF successes = 0
               THEN summary.avg_score = <<0, 1>> /\ summary.avg_latency = <<0, 1>>
               ELSE /\ RatMul(summary.avg_score, <<successes, 1>>)
                          = SuccessfulTotal(runs, scores, Len(runs))
                    /\ RatMul(summary.avg_latency, <<successes, 1>>)
                          = SuccessfulTotal(runs, latencies, Len(runs))
            /\ (/\ Len(runs) = 3
                /\ successes = 1
                /\ \E j \in 1..3 : runs[j].success /\ runs[j].evaluation.score = <<4, 5>>)
               => (summary.avg_score = <<4, 5>> /\ summary.success_rate = <<1, 3>>)

\* three runs, two of them failed, the successful one scored 0.8
C3_Witness ==
    \E k \in 1..Len(results) :
        /\ Len(results[k].runs) = 3
        /\ Cardinality({j \in 1..3 : results[k].runs[j].success}) = 1
        /\ \E j \in 1..3 : /\ results[k].runs[j].success
                           /\ results[k].runs[j].evaluation.score = <<4, 5>>

-----------------------------------------------------------------------------
(* Properties of run_all_benchmarks (specification SpecAll) and of the     *)
(* trial boundary                                                          *)

\* C4. In run_all_benchmarks, when the run of one benchmark raises, the
\* benchmark's slot becomes {error: message} and the loop goes on to the
\* benchmarks that remain; no slot already filled changes; and what
\* run_all_benchmarks returns has exactly one entry for each of the five
\* registered benchmarks, so the error never leaves run_all_benchmarks.
C4_BenchmarkErrorsContained ==
    [][/\ pc = "raised" =>
              /\ pc' = "all_next"
              /\ DOMAIN all_results' = DOMAIN all_results \cup {benchmark_name}
              /\ all_results'[benchmark_name] = [error |-> returned.exception]
              /\ todo' = Tail(todo)
       /\ pc \in {"raised", "done"} =>
              \A b \in DOMAIN all_results : all_results'[b] = all_results[b]
       /\ pc' = "all_done" =>
              /\ DOMAIN returned'.benchmarks = BenchmarkNames
              /\ \A b \in BenchmarkNames :
                    \/ DOMAIN returned'.benchmarks[b] = {"error"}
                    \/ returned'.benchmarks[b].benchmark = b]_vars

\* run_all_benchmarks has returned; the first benchmark's run raised and a
\* later benchmark's run returned its results
C4_Witness ==
    /\ pc = "all_done"
    /\ DOMAIN returned.benchmarks[Benchmarks[1]] = {"error"}
    /\ \E i \in 2..Len(Benchmarks) :
          /\ "results" \in DOMAIN returned.benchmarks[Benchmarks[i]]
          /\ returned.benchmarks[Benchmarks[i]].results # <<>>

\* C5. An error raised within a trial, by the generation of its
\* test case, by its model call or by the scoring of its response, stays within
\* the trial: run_benchmark never ends by an exception raised in one of these
\* steps, so the repetitions and lengths that remain are executed.
\* Does not hold: generate_test_case (line 74) and evaluate (line 102) are called
\* outside the try of lines 85-96.
C5_TrialErrorsConfined ==
    pc = "raised" =>
        \/ trace = <<>>
        \/ trace[Len(trace)].op \notin {"generate", "invoke", "evaluate"}

\* C6. When the generation of a test case has raised after the
\* summaries of earlier lengths were computed, what run_all_benchmarks reports
\* for the benchmark still holds those summaries with their run records.
\* Does not hold: the exception leaves run_benchmark, whose results are dropped;
\* lines 159-161 store the error message alone.
C6_EarlierRecordsReported ==
    (/\ pc = "all_next"
     /\ benchmark_name \in DOMAIN all_results
     /\ trace # <<>>
     /\ trace[Len(trace)].op = "generate"
     /\ results # <<>>) =>
        /\ "results" \in DOMAIN all_results[benchmark_name]
        /\ Len(all_results[benchmark_name].results) >= Len(results)
        /\ SubSeq(all_results[benchmark_name].results, 1, Len(results)) = results

\* C7. When the endpoint returns a response whose content is None
\* instead of text, the trial is recorded with success false and the sweep
\* proceeds: run_benchmark does not end by an exception there.
\* Does not hold: lines 90-91 take the None content as a success and evaluate
\* raises AttributeError on it.
C7_NonTextRecordedAsFailure ==
    (success /\ model_response.none /\ pc \notin {"call", "score"}) =>
        /\ pc # "raised"
        /\ length_results.runs # <<>>
        /\ ~length_results.runs[Len(length_results.runs)].success

\* C8. Once a generate_test_case call on an instance has returned, whatever
\* earlier calls and sweeps left there, the instance's ContextManager holds
\* exactly one entry, of role "user" and with the latest test case's context as
\* content; the messages sent to the model are that document turn followed by
\* the question turn, and appending the question has left the ContextManager
\* as it was.  Every instance holds at most one entry, of role "user".
C8_SingleDocumentTurn ==
    /\ \A b \in BenchmarkNames :
          /\ Len(context_manager[b]) <= 1
          /\ \A i \in 1..Len(context_manager[b]) : context_manager[b][i].role = "user"
    /\ pc \in {"call", "score"} =>
          /\ Len(context_manager[benchmark_name]) = 1
          /\ context_manager[benchmark_name][1].role = "user"
          /\ context_manager[benchmark_name][1].content = test_case.context
          /\ messages = <<[role |-> "user", content |-> test_case.context],
                          [role |-> "user", content |-> test_case.question]>>

\* the messages of a trial are built on an instance that earlier calls have
\* used: the second repetition, the second length, or a sweep after another
C8_Witness ==
    /\ pc = "call"
    /\ Len(trace) > 1
    /\ Len(context_manager[benchmark_name]) = 1

\* C9. The sweep is sequential.  results lists the lengths in the order
\* requested, each entry's runs are numbered 1..num_runs in order; a trial's
\* generation starts only when every earlier trial has had its model call and
\* its record; the summary of a length is computed exactly once, after the
\* last repetition of the length and before any trial of the next length; and
\* an entry of results is never modified once appended.
C9_SequentialSweep ==
    /\ [](/\ Len(results) <= Len(context_lengths)
          /\ \A k \in 1..Len(results) :
                /\ results[k].context_length = context_lengths[k]
                /\ Len(results[k].runs) = num_runs
                /\ \A j \in 1..num_runs : results[k].runs[j].run = j
                /\ Cardinality({i \in 1..Len(trace) :
                                  trace[i].op = "summarize" /\ trace[i].li = k}) = 1
          /\ \A i \in 1..Len(trace) :
                /\ trace[i].op = "generate" =>
                      LET before(op) == Cardinality({h \in 1..(i - 1) : trace[h].op = op})
                      IN  /\ before("invoke") = before("generate")
                          /\ before("record") = before("generate")
                /\ \A h \in 1..(i - 1) :
                      /\ trace[h].li <= trace[i].li
                      /\ (trace[h].li = trace[i].li /\ trace[h].op = "summarize") =>
                             trace[i].op = "summarize"
                      /\ (trace[h].li = trace[i].li /\ trace[i].op # "summarize") =>
                             trace[h].run <= trace[i].run)
    /\ [][pc # "idle" =>
             /\ Len(results') >= Len(results)
             /\ \A k \in 1..Len(results) : results'[k] = results[k]]_vars

\* a finished sweep over two different lengths, the second one's summary in place
C9_Witness ==
    /\ pc = "done"
    /\ Len(results) = 2
    /\ results[1].context_length # results[2].context_length
    /\ num_runs >= 1

-----------------------------------------------------------------------------
(* Properties of the scorers (specification SpecEval)                      *)

-----------------------------------------------------------------------------
(* Properties of the scorers and of the scores the runner records          *)

\* evaluate called on its own, or a sweep of run_benchmark
InitScores == Init \/ InitEval

NextScores == Next \/ NextEval

SpecScores == InitScores /\ [][NextScores]_vars

\* C11. Whatever evaluate returns, for each of the five scorers and every pair
\* (response, expected), its score lies in [0, 1]; and the evaluation of every
\* run record of the runner, of a successful call or of a failed one, has a
\* score in [0, 1].
C11_ScoresInUnitInterval ==
    LET InUnit(x) == x[2] > 0 /\ 0 <= x[1] /\ x[1] <= x[2]
    IN  /\ (pc = "fn" /\ fn.op = "evaluate" /\ fn.done) => InUnit(fn.returned.score)
        /\ \A j \in 1..Len(length_results.runs) :
              InUnit(length_results.runs[j].evaluation.score)
        /\ \A k \in 1..Len(results) : \A j \in 1..Len(results[k].runs) :
              InUnit(results[k].runs[j].evaluation.score)

\* the BrowseComp scorer has returned a score strictly between 0 and 1 that
\* comes from the key terms: 0.8, above the word overlap
C11_Witness ==
    /\ pc = "fn"
    /\ fn.op = "evaluate"
    /\ fn.done
    /\ fn.name = "browsecomp"
    /\ fn.returned.score = <<4, 5>>
    /\ fn.returned.word_overlap # <<4, 5>>

\* The tiers of C12 for one call of evaluate: with both strings lowercased and
\* stripped, equal strings give 1.0 and correct; otherwise a containment match
\* gives 0.8 and not correct; otherwise the score is the smaller of 0.6 and the
\* share of the expected words found among the response words (0 when
\* expected has no word) and not correct.  either tells for which scorers a
\* response contained in the expected answer is a containment match too.
Tiers(either) ==
    LET response_lower == Strip(Lower(fn.response))
        expected_lower == Strip(Lower(fn.expected))
        contained == \/ Contains(expected_lower, response_lower)
                     \/ (fn.name \in either /\ Contains(response_lower, expected_lower))
        total == Cardinality(WordSet(expected_lower))
        common == Cardinality(WordSet(expected_lower) \cap WordSet(response_lower))
        score == fn.returned.score
    IN  IF expected_lower = response_lower
        THEN score = <<1, 1>> /\ fn.returned.correct
        ELSE IF contained
        THEN score = <<4, 5>> /\ ~fn.returned.correct
        ELSE /\ ~fn.returned.correct
             /\ IF total = 0 THEN score = <<0, 1>>
                ELSE IF 5 * common >= 3 * total THEN score = <<3, 5>>
                ELSE score[1] * total = common * score[2]

\* C12. The OOLONG, OOLONG PAIRS and CodeQA scorers follow the
\* tiers, a containment match being that the expected answer is contained in
\* the response.
\* Does not hold: OOLONGBenchmark.evaluate (line 103) also takes a response
\* contained in the expected answer as a containment match.
C12_TiersExpectedInResponse ==
    (/\ pc = "fn" /\ fn.op = "evaluate" /\ fn.done
     /\ fn.name \in {"oolong", "oolong_pairs", "codeqa"}) => Tiers({})

\* C12, amended.  The three scorers follow the tiers, a containment match being
\* that the expected answer is contained in the response or, for OOLONG
\* only, that the response is contained in the expected answer.
C12_Tiers ==
    (/\ pc = "fn" /\ fn.op = "evaluate" /\ fn.done
     /\ fn.name \in {"oolong", "oolong_pairs", "codeqa"}) => Tiers({"oolong"})

\* OOLONG has scored 0.8 a response that is a proper, non-empty part of the
\* expected answer
C12_Witness ==
    /\ pc = "fn" /\ fn.op = "evaluate" /\ fn.done
    /\ fn.name = "oolong"
    /\ Strip(fn.response) # <<>>
    /\ ~Contains(Strip(Lower(fn.expected)), Strip(Lower(fn.response)))
    /\ fn.returned.score = <<4, 5>>

\* C13. The needle scorer, for every response and every generated code: correct
\* is true, and the score 1.0, exactly when the code occurs in the response
\* ignoring case, so that "the code is " followed by the code is correct with
\* score 1.0; when it does not occur, the score is 0.5 if some character of
\* the code appears in the response ignoring case, and 0.0 otherwise.
C13_NeedleScoring ==
    (/\ pc = "fn" /\ fn.op = "evaluate" /\ fn.done
     /\ fn.name = "needle_in_haystack"
     /\ \E c \in 1..Len(Codes) : fn.expected = Codes[c]) =>
        LET same(a, b) == LowerCh(a) = LowerCh(b)
            at(i) == \A k \in 1..Len(fn.expected) : same(fn.response[i + k - 1], fn.expected[k])
            occurs == \E i \in 1..(Len(fn.response) - Len(fn.expected) + 1) : at(i)
            some == \E i \in 1..Len(fn.response), k \in 1..Len(fn.expected) :
                        same(fn.response[i], fn.expected[k])
        IN  /\ fn.returned.correct <=> occurs
            /\ fn.returned.score = <<1, 1>> <=> occurs
            /\ ~occurs => fn.returned.score = (IF some THEN <<1, 2>> ELSE <<0, 1>>)
            /\ fn.response = TheCodeIs \o fn.expected =>
                   (fn.returned.correct /\ fn.returned.score = <<1, 1>>)

\* the scorer has found the code, written in lower case, in a response
C13_Witness ==
    /\ pc = "fn" /\ fn.op = "evaluate" /\ fn.done
    /\ fn.name = "needle_in_haystack"
    /\ fn.expected = Codes[1]
    /\ fn.response = Lower(Codes[1])
    /\ fn.returned.correct

\* The BrowseComp formula of C14 for one call of evaluate: with both strings
\* lowercased and stripped, word_overlap is the share of the expected words
\* found among the response words, key_term_score the share of the expected
\* words longer than 4 characters that occur in the response, score the larger
\* of word_overlap and key_term_score * 0.8, and correct is score > 0.7.
BrowseCompFormula ==
    LET response_lower == Strip(Lower(fn.response))
        expected_words == WordSet(Strip(Lower(fn.expected)))
        common == Cardinality(expected_words \cap WordSet(response_lower))
        long == {w \in expected_words : Len(w) >= 5}
        found == Cardinality({w \in long : Contains(w, response_lower)})
        word_overlap == IF expected_words = {} THEN <<0, 1>>
                        ELSE Frac(common, Cardinality(expected_words))
        key_term_score == IF long = {} THEN <<0, 1>> ELSE Frac(found, Cardinality(long))
        scaled == TimesPoint8(key_term_score)
        score == fn.returned.score
    IN  /\ score \in {word_overlap, scaled}
        /\ ~RatLess(score, word_overlap)
        /\ ~RatLess(score, scaled)
        /\ fn.returned.correct <=> (score[1] * 10 > 7 * score[2])

\* the call evaluate("significant progress", <content of the Results section>)
ResultsExample ==
    /\ fn.name = "browsecomp"
    /\ fn.response = <<"s","i","g","n","i","f","i","c","a","n","t"," ","p","r","o","g","r","e","s","s">>
    /\ \E i \in 1..Len(document_sections) :
          /\ document_sections[i].title = <<"R","e","s","u","l","t","s">>
          /\ fn.expected = document_sections[i].content

\* C14. The BrowseComp scorer follows the formula, and scoring the response
\* "significant progress" against the content of the Results section yields
\* score > 0.7 and correct.
\* Does not hold: 2 of the 10 expected words and 2 of the 7 key terms are found,
\* the score is max(0.2, 2/7 * 0.8).
C14_ResultsExampleCorrect ==
    (pc = "fn" /\ fn.op = "evaluate" /\ fn.done /\ fn.name = "browsecomp") =>
        /\ BrowseCompFormula
        /\ ResultsExample =>
               (fn.returned.score[1] * 10 > 7 * fn.returned.score[2] /\ fn.returned.correct)

\* C14, amended.  The BrowseComp scorer follows the formula, and scoring the
\* response "significant progress" against the content of the Results section
\* yields score 8/35 (0.2286) and not correct.
C14_BrowseCompScoring ==
    (pc = "fn" /\ fn.op = "evaluate" /\ fn.done /\ fn.name = "browsecomp") =>
        /\ BrowseCompFormula
        /\ ResultsExample => (fn.returned.score = <<8, 35>> /\ ~fn.returned.correct)

\* the response "significant progress" has been scored against the Results
\* section, the key terms deciding the score
C14_Witness ==
    /\ pc = "fn" /\ fn.op = "evaluate" /\ fn.done
    /\ ResultsExample
    /\ fn.returned.score # fn.returned.word_overlap

-----------------------------------------------------------------------------
(* Properties of the generators (specification SpecGen)                    *)

\* the last call of generate_test_case on the instance
LastCall == fn.calls[Len(fn.calls)]

\* generate_test_case has just returned a test case on the instance of name
Returned(name) ==
    /\ pc = "fn" /\ fn.op = "generate" /\ fn.name = name
    /\ fn.calls # <<>>
    /\ ~LastCall.raised

\* The derivation of C15 for the BrowseComp test case just returned: the
\* expected answer is the content of the section of the document that holds
\* the key phrase of the question asked, and one of the facts of the
\* document's sections when no section of the document holds it.
AnswerDerivation ==
    LET tc == LastCall.test_case
        units == {tc.context[i] : i \in 1..Len(tc.context)}
        q == CHOOSE x \in {questions[i] : i \in 1..Len(questions)} : x.question = tc.question
        holding == {u \in units : /\ u.kind = "content"
                                  /\ Contains(Lower(q.expected_part),
                                              Lower(document_sections[u.id].content))}
    IN  IF holding # {}
        THEN \E u \in holding : tc.expected_answer = document_sections[u.id].content
        ELSE \E u \in units : /\ u.kind = "section_fact"
                              /\ tc.expected_answer = fact_value(u.pos, u.id)

\* the question asked is "What do the results indicate?"
ResultsQuestion ==
    LastCall.test_case.question
        = <<"W","h","a","t"," ","d","o"," ","t","h","e"," ","r","e","s","u","l","t","s"," ",
            "i","n","d","i","c","a","t","e","?">>

\* the content of the Results section
ResultsContent ==
    (CHOOSE x \in {document_sections[i] : i \in 1..Len(document_sections)} :
        x.title = <<"R","e","s","u","l","t","s">>).content

\* C15. The BrowseComp generator derives the expected answer from the section
\* that holds the question's key phrase, falling back to a fact of the
\* document only when no section holds it, and "What do the results
\* indicate?" always yields the content of the Results section.
\* Does not hold: the sections are a sample (line 56); when Results is not in
\* it the answer to that question is a per-section fact.
C15_ResultsAlwaysAnswered ==
    Returned("browsecomp") =>
        /\ AnswerDerivation
        /\ ResultsQuestion => LastCall.test_case.expected_answer = ResultsContent

\* C15, amended.  The BrowseComp generator derives the expected answer from the
\* section that holds the question's key phrase, falling back to a fact of the
\* document only when no section holds it; "What do the results indicate?"
\* yields the content of the Results section exactly when the Results section
\* is one of the sections sampled for the document.
C15_AnswerDerivation ==
    Returned("browsecomp") =>
        /\ AnswerDerivation
        /\ ResultsQuestion =>
              (LastCall.test_case.expected_answer = ResultsContent
                  <=> <<"R","e","s","u","l","t","s">>
                          \in {LastCall.test_case.metadata.sections[i] :
                                  i \in 1..Len(LastCall.test_case.metadata.sections)})

\* the results question was asked of a document without the Results section
\* and the expected answer is a fact
C15_Witness ==
    /\ Returned("browsecomp")
    /\ ResultsQuestion
    /\ LastCall.test_case.expected_answer # ResultsContent
    /\ LastCall.context_length = [none |-> FALSE, n |-> 60]

\* C16. In the document of the OOLONG PAIRS generator, for every target length,
\* the role statement is the first sentence, the relation statement follows
\* it after exactly 2 filler sentences for "close", 10 for "medium", 30 for
\* "far" (the default) and between 2 and 30 for "random"; every other
\* sentence is a filler sentence, and those after the relation statement make
\* up the rest of the num_sentences reported, none or more.
C16_PairSeparation ==
    Returned("oolong_pairs") =>
        LET tc == LastCall.test_case
            units == tc.context
            at(kind) == {i \in 1..Len(units) : units[i].kind = kind}
            option == fn.kw.pair_separation
        IN  /\ at("role") = {1}
            /\ Cardinality(at("relation")) = 1
            /\ \A i \in 1..Len(units) :
                  units[i].kind \in {"role", "relation", "pairs_filler"}
            /\ \A p \in at("relation") :
                  LET between == p - 2
                      after == tc.metadata.num_sentences - p
                  IN  /\ option = "close" => between = 2
                      /\ option = "medium" => between = 10
                      /\ option \in {"far", "absent"} => between = 30
                      /\ option = "random" => (2 <= between /\ between <= 30)
                      /\ after >= 0
                      /\ after = Cardinality({i \in at("pairs_filler") : i > p})

\* a "close" pair generated for a target length that asks for no filler at
\* all: the two statements, two fillers between them, nothing after
C16_Witness ==
    /\ Returned("oolong_pairs")
    /\ fn.kw.pair_separation = "close"
    /\ LastCall.context_length.n = 10
    /\ Len(LastCall.test_case.context) = 4

\* the placement option the last call was given, and the sentences of its
\* document that are the signal: the needle, or the fact statement
Placement ==
    IF fn.name = "needle_in_haystack" THEN fn.kw.needle_position ELSE fn.kw.fact_position

SignalAt ==
    {i \in 1..Len(LastCall.test_case.context) :
        LastCall.test_case.context[i].kind \in {"needle", "fact"}}

\* C17. For the needle generator and the OOLONG generator and every target
\* length: with placement "start" the signal sentence is the first sentence of
\* the context, with "end" it is the last, and with every placement the signal
\* sentence is in the document exactly once.
C17_StartEndPlacement ==
    (Returned("needle_in_haystack") \/ Returned("oolong")) =>
        /\ Cardinality(SignalAt) = 1
        /\ Placement = "start" => SignalAt = {1}
        /\ Placement = "end" => SignalAt = {Len(LastCall.test_case.context)}
        /\ \A i \in SignalAt :
              LastCall.test_case.context[i].kind
                  = (IF fn.name = "oolong" THEN "fact" ELSE "needle")

\* an OOLONG document longer than the floor with the fact as its last sentence
C17_Witness ==
    /\ Returned("oolong")
    /\ fn.kw.fact_position = "end"
    /\ Len(LastCall.test_case.context) > 6
    /\ LastCall.test_case.context[Len(LastCall.test_case.context)].kind = "fact"

\* C18. For the needle generator and the OOLONG generator, every placement
\* ("start", "middle", "end", "random", any other string, none) and every
\* integer target length, zero and negative ones included, the signal sentence
\* is inserted at an offset within [0, document_unit_count - 1], the count
\* being the number of sentences of the document and the one reported: 0 for
\* "start", the last for "end", the half of the count (needle) or of the
\* filler count (OOLONG) for "middle".
C18_OffsetWithinDocument ==
    (Returned("needle_in_haystack") \/ Returned("oolong")) =>
        LET document_unit_count == LastCall.test_case.metadata.num_sentences
        IN  /\ document_unit_count = Len(LastCall.test_case.context)
            /\ \E offset \in 0..(document_unit_count - 1) :
                  /\ SignalAt = {offset + 1}
                  /\ Placement = "start" => offset = 0
                  /\ Placement = "end" => offset = document_unit_count - 1
                  /\ Placement = "middle" =>
                        offset = (IF fn.name = "oolong"
                                  THEN (document_unit_count - 1) \div 2
                                  ELSE document_unit_count \div 2)

\* a needle placed in the middle of the minimal haystack, asked for with a
\* negative target length
C18_Witness ==
    /\ Returned("needle_in_haystack")
    /\ fn.kw.needle_position = "middle"
    /\ LastCall.context_length.n < 0
    /\ SignalAt = {6}

\* C19. For the four generators that fill with sentences (needle, OOLONG,
\* OOLONG PAIRS, CodeQA), every placement or separation option and every
\* integer target length, the document holds at least 5 filler sentences.
\* Does not hold: the floor of OOLONG PAIRS is the separation (line 65), which
\* is 2 for "close".
C19_MinimumFiller ==
    (\/ Returned("needle_in_haystack") \/ Returned("oolong")
     \/ Returned("oolong_pairs") \/ Returned("codeqa")) =>
        Cardinality({i \in 1..Len(LastCall.test_case.context) :
                        LastCall.test_case.context[i].kind
                            \in {"haystack", "oolong_filler", "pairs_filler", "doc"}}) >= 5

\* C20. For every generator and a fixed placement option, the achieved length
\* in metadata.context_length does not decrease as the target length grows:
\* of two test cases generated with target lengths L1 <= L2, whatever the
\* random draws of each, the first reports no more than the second.
\* Does not hold: two targets that give the same number of sentences draw
\* sentences of different lengths, and the smaller target can get the longer
\* document.
C20_AchievedLengthMonotone ==
    (/\ pc = "fn" /\ fn.op = "generate"
     /\ Len(fn.calls) = 2
     /\ ~fn.calls[1].raised /\ ~fn.calls[2].raised) =>
        LET first == fn.calls[1]
            second == fn.calls[2]
        IN  /\ first.context_length.n <= second.context_length.n =>
                  first.test_case.metadata.context_length
                      <= second.test_case.metadata.context_length
            /\ second.context_length.n <= first.context_length.n =>
                  second.test_case.metadata.context_length
                      <= first.test_case.metadata.context_length

-----------------------------------------------------------------------------
(* The text of a document: the characters of its units and of what joins  *)
(* them.                                                                   *)

\* NeedleInHaystackBenchmark.haystack_sentences
haystack_sentences_text == <<
    <<"T","h","i","s"," ","i","s"," ","a"," ","s","a","m","p","l","e"," ","s","e","n","t","e","n","c","e"," ","f","o","r"," ","c","o","n","t","e","x","t"," ","g","e","n","e","r","a","t","i","o","n",".">>,
    <<"T","h","e"," ","w","e","a","t","h","e","r"," ","t","o","d","a","y"," ","i","s"," ","q","u","i","t","e"," ","p","l","e","a","s","a","n","t"," ","a","n","d"," ","s","u","n","n","y",".">>,
    <<"M","a","c","h","i","n","e"," ","l","e","a","r","n","i","n","g"," ","m","o","d","e","l","s"," ","r","e","q","u","i","r","e"," ","e","x","t","e","n","s","i","v","e"," ","t","r","a","i","n","i","n","g"," ","d","a","t","a",".">>,
    <<"P","y","t","h","o","n"," ","i","s"," ","a"," ","v","e","r","s","a","t","i","l","e"," ","p","r","o","g","r","a","m","m","i","n","g"," ","l","a","n","g","u","a","g","e",".">>,
    <<"C","o","n","t","e","x","t"," ","w","i","n","d","o","w","s"," ","a","r","e"," ","c","r","u","c","i","a","l"," ","f","o","r"," ","l","a","n","g","u","a","g","e"," ","m","o","d","e","l","s",".">>,
    <<"N","a","t","u","r","a","l"," ","l","a","n","g","u","a","g","e"," ","p","r","o","c","e","s","s","i","n","g"," ","e","n","a","b","l","e","s"," ","m","a","n","y"," ","a","p","p","l","i","c","a","t","i","o","n","s",".">>,
    <<"D","e","e","p"," ","l","e","a","r","n","i","n","g"," ","h","a","s"," ","r","e","v","o","l","u","t","i","o","n","i","z","e","d"," ","a","r","t","i","f","i","c","i","a","l"," ","i","n","t","e","l","l","i","g","e","n","c","e",".">>,
    <<"D","a","t","a"," ","s","t","r","u","c","t","u","r","e","s"," ","a","r","e"," ","f","u","n","d","a","m","e","n","t","a","l"," ","t","o"," ","c","o","m","p","u","t","e","r"," ","s","c","i","e","n","c","e",".">>,
    <<"A","l","g","o","r","i","t","h","m","s"," ","h","e","l","p"," ","s","o","l","v","e"," ","c","o","m","p","l","e","x"," ","c","o","m","p","u","t","a","t","i","o","n","a","l"," ","p","r","o","b","l","e","m","s",".">>,
    <<"S","o","f","t","w","a","r","e"," ","e","n","g","i","n","e","e","r","i","n","g"," ","p","r","a","c","t","i","c","e","s"," ","i","m","p","r","o","v","e"," ","c","o","d","e"," ","q","u","a","l","i","t","y",".">>
    >>

\* OOLONGBenchmark.generate_test_case's filler_sentences
oolong_filler_sentences_text == <<
    <<"T","h","i","s"," ","i","s"," ","c","o","n","t","e","x","t","u","a","l"," ","i","n","f","o","r","m","a","t","i","o","n"," ","t","h","a","t"," ","s","e","r","v","e","s"," ","a","s"," ","p","a","d","d","i","n","g",".">>,
    <<"T","h","e"," ","f","o","l","l","o","w","i","n","g"," ","p","a","r","a","g","r","a","p","h","s"," ","c","o","n","t","a","i","n"," ","v","a","r","i","o","u","s"," ","d","e","t","a","i","l","s",".">>,
    <<"A","d","d","i","t","i","o","n","a","l"," ","c","o","n","t","e","x","t"," ","i","s"," ","p","r","o","v","i","d","e","d"," ","h","e","r","e"," ","f","o","r"," ","l","e","n","g","t","h",".">>,
    <<"M","o","r","e"," ","i","n","f","o","r","m","a","t","i","o","n"," ","f","o","l","l","o","w","s"," ","i","n"," ","s","u","b","s","e","q","u","e","n","t"," ","s","e","n","t","e","n","c","e","s",".">>,
    <<"T","h","e","s","e"," ","s","e","n","t","e","n","c","e","s"," ","a","d","d"," ","t","o"," ","t","h","e"," ","o","v","e","r","a","l","l"," ","c","o","n","t","e","x","t"," ","l","e","n","g","t","h",".">>,
    <<"F","u","r","t","h","e","r"," ","d","e","t","a","i","l","s"," ","a","r","e"," ","i","n","c","l","u","d","e","d"," ","i","n"," ","t","h","i","s"," ","s","e","c","t","i","o","n",".">>,
    <<"A","d","d","i","t","i","o","n","a","l"," ","p","a","d","d","i","n","g"," ","t","e","x","t"," ","i","s"," ","i","n","s","e","r","t","e","d"," ","h","e","r","e",".">>,
    <<"M","o","r","e"," ","c","o","n","t","e","x","t","u","a","l"," ","i","n","f","o","r","m","a","t","i","o","n"," ","f","o","l","l","o","w","s",".">>,
    <<"T","h","i","s"," ","p","a","r","a","g","r","a","p","h"," ","c","o","n","t","a","i","n","s"," ","s","u","p","p","l","e","m","e","n","t","a","r","y"," ","d","e","t","a","i","l","s",".">>,
    <<"F","u","r","t","h","e","r"," ","i","n","f","o","r","m","a","t","i","o","n"," ","i","s"," ","p","r","o","v","i","d","e","d"," ","i","n"," ","t","h","i","s"," ","s","e","c","t","i","o","n",".">>
    >>

\* OOLONGPairsBenchmark.generate_test_case's filler_sentences
pairs_filler_sentences_text == <<
    <<"T","h","i","s"," ","p","a","r","a","g","r","a","p","h"," ","c","o","n","t","a","i","n","s"," ","a","d","d","i","t","i","o","n","a","l"," ","c","o","n","t","e","x","t","u","a","l"," ","i","n","f","o","r","m","a","t","i","o","n",".">>,
    <<"M","o","r","e"," ","d","e","t","a","i","l","s"," ","a","r","e"," ","p","r","o","v","i","d","e","d"," ","i","n"," ","t","h","e"," ","f","o","l","l","o","w","i","n","g"," ","s","e","c","t","i","o","n","s",".">>,
    <<"T","h","e"," ","d","o","c","u","m","e","n","t"," ","c","o","n","t","i","n","u","e","s"," ","w","i","t","h"," ","f","u","r","t","h","e","r"," ","e","x","p","l","a","n","a","t","i","o","n","s",".">>,
    <<"A","d","d","i","t","i","o","n","a","l"," ","c","o","n","t","e","x","t"," ","i","s"," ","i","n","c","l","u","d","e","d"," ","f","o","r"," ","c","o","m","p","l","e","t","e","n","e","s","s",".">>,
    <<"T","h","i","s"," ","s","e","c","t","i","o","n"," ","p","r","o","v","i","d","e","s"," ","s","u","p","p","l","e","m","e","n","t","a","r","y"," ","i","n","f","o","r","m","a","t","i","o","n",".">>,
    <<"F","u","r","t","h","e","r"," ","d","e","t","a","i","l","s"," ","f","o","l","l","o","w"," ","i","n"," ","s","u","b","s","e","q","u","e","n","t"," ","p","a","r","a","g","r","a","p","h","s",".">>,
    <<"M","o","r","e"," ","c","o","n","t","e","x","t","u","a","l"," ","d","a","t","a"," ","i","s"," ","p","r","e","s","e","n","t","e","d"," ","h","e","r","e",".">>,
    <<"T","h","e"," ","t","e","x","t"," ","c","o","n","t","i","n","u","e","s"," ","w","i","t","h"," ","a","d","d","i","t","i","o","n","a","l"," ","i","n","f","o","r","m","a","t","i","o","n",".">>,
    <<"T","h","i","s"," ","p","a","r","a","g","r","a","p","h"," ","a","d","d","s"," ","t","o"," ","t","h","e"," ","o","v","e","r","a","l","l"," ","c","o","n","t","e","x","t",".">>,
    <<"F","u","r","t","h","e","r"," ","e","x","p","l","a","n","a","t","i","o","n","s"," ","a","r","e"," ","p","r","o","v","i","d","e","d"," ","b","e","l","o","w",".">>
    >>

\* CodeQABenchmark.generate_test_case's doc_sentences
doc_sentences_text == <<
    <<"T","h","i","s"," ","c","o","d","e"," ","i","m","p","l","e","m","e","n","t","s"," ","a"," ","c","o","m","m","o","n"," ","a","l","g","o","r","i","t","h","m",".">>,
    <<"T","h","e"," ","f","u","n","c","t","i","o","n"," ","i","s"," ","w","e","l","l","-","d","o","c","u","m","e","n","t","e","d"," ","a","n","d"," ","f","o","l","l","o","w","s"," ","b","e","s","t"," ","p","r","a","c","t","i","c","e","s",".">>,
    <<"E","r","r","o","r"," ","h","a","n","d","l","i","n","g"," ","i","s"," ","i","n","c","l","u","d","e","d"," ","f","o","r"," ","e","d","g","e"," ","c","a","s","e","s",".">>,
    <<"T","h","e"," ","i","m","p","l","e","m","e","n","t","a","t","i","o","n"," ","i","s"," ","e","f","f","i","c","i","e","n","t"," ","a","n","d"," ","r","e","a","d","a","b","l","e",".">>,
    <<"T","h","i","s"," ","c","o","d","e"," ","c","a","n"," ","b","e"," ","u","s","e","d"," ","i","n"," ","v","a","r","i","o","u","s"," ","a","p","p","l","i","c","a","t","i","o","n","s",".">>,
    <<"T","h","e"," ","a","l","g","o","r","i","t","h","m"," ","h","a","s"," ","b","e","e","n"," ","t","e","s","t","e","d"," ","e","x","t","e","n","s","i","v","e","l","y",".">>,
    <<"P","e","r","f","o","r","m","a","n","c","e"," ","o","p","t","i","m","i","z","a","t","i","o","n","s"," ","h","a","v","e"," ","b","e","e","n"," ","a","p","p","l","i","e","d",".">>,
    <<"T","h","e"," ","c","o","d","e"," ","f","o","l","l","o","w","s"," ","s","t","a","n","d","a","r","d"," ","c","o","d","i","n","g"," ","c","o","n","v","e","n","t","i","o","n","s",".">>,
    <<"A","d","d","i","t","i","o","n","a","l"," ","h","e","l","p","e","r"," ","f","u","n","c","t","i","o","n","s"," ","m","a","y"," ","b","e"," ","n","e","e","d","e","d",".">>,
    <<"T","h","i","s"," ","i","m","p","l","e","m","e","n","t","a","t","i","o","n"," ","i","s"," ","s","u","i","t","a","b","l","e"," ","f","o","r"," ","p","r","o","d","u","c","t","i","o","n"," ","u","s","e",".">>
    >>

\* BrowseCompBenchmark.generate_test_case's detail_sentences
detail_sentences_text == <<
    <<"A","d","d","i","t","i","o","n","a","l"," ","d","e","t","a","i","l","s"," ","a","r","e"," ","p","r","o","v","i","d","e","d"," ","i","n"," ","t","h","i","s"," ","s","e","c","t","i","o","n",".">>,
    <<"M","o","r","e"," ","i","n","f","o","r","m","a","t","i","o","n"," ","f","o","l","l","o","w","s"," ","i","n"," ","t","h","e"," ","s","u","b","s","e","q","u","e","n","t"," ","p","a","r","a","g","r","a","p","h","s",".">>,
    <<"F","u","r","t","h","e","r"," ","e","x","p","l","a","n","a","t","i","o","n","s"," ","c","l","a","r","i","f","y"," ","t","h","e"," ","c","o","n","c","e","p","t","s"," ","d","i","s","c","u","s","s","e","d",".">>,
    <<"T","h","e"," ","s","e","c","t","i","o","n"," ","c","o","n","t","i","n","u","e","s"," ","w","i","t","h"," ","r","e","l","e","v","a","n","t"," ","i","n","f","o","r","m","a","t","i","o","n",".">>,
    <<"A","d","d","i","t","i","o","n","a","l"," ","c","o","n","t","e","x","t"," ","i","s"," ","i","n","c","l","u","d","e","d"," ","f","o","r"," ","c","o","m","p","l","e","t","e","n","e","s","s",".">>
    >>

\* snippet["code"] of each of CodeQABenchmark.code_snippets
snippet_code == <<
    <<"\n","d","e","f"," ","f","i","b","o","n","a","c","c","i","(","n",")",":","\n"," "," "," "," ","i","f"," ","n"," ","<","="," ","1",":","\n"," "," "," "," "," "," "," "," ","r","e","t","u","r","n"," ","n","\n"," "," "," "," ","r","e","t","u","r","n"," ","f","i","b","o","n","a","c","c","i","(","n","-","1",")"," ","+"," ","f","i","b","o","n","a","c","c","i","(","n","-","2",")","\n">>,
    <<"\n","d","e","f"," ","q","u","i","c","k","s","o","r","t","(","a","r","r",")",":","\n"," "," "," "," ","i","f"," ","l","e","n","(","a","r","r",")"," ","<","="," ","1",":","\n"," "," "," "," "," "," "," "," ","r","e","t","u","r","n"," ","a","r","r","\n"," "," "," "," ","p","i","v","o","t"," ","="," ","a","r","r","[","l","e","n","(","a","r","r",")"," ","/","/"," ","2","]","\n"," "," "," "," ","l","e","f","t"," ","="," ","[","x"," ","f","o","r"," ","x"," ","i","n"," ","a","r","r"," ","i","f"," ","x"," ","<"," ","p","i","v","o","t","]","\n"," "," "," "," ","m","i","d","d","l","e"," ","="," ","[","x"," ","f","o","r"," ","x"," ","i","n"," ","a","r","r"," ","i","f"," ","x"," ","=","="," ","p","i","v","o","t","]","\n"," "," "," "," ","r","i","g","h","t"," ","="," ","[","x"," ","f","o","r"," ","x"," ","i","n"," ","a","r","r"," ","i","f"," ","x"," ",">"," ","p","i","v","o","t","]","\n"," "," "," "," ","r","e","t","u","r","n"," ","q","u","i","c","k","s","o","r","t","(","l","e","f","t",")"," ","+"," ","m","i","d","d","l","e"," ","+"," ","q","u","i","c","k","s","o","r","t","(","r","i","g","h","t",")","\n">>,
    <<"\n","c","l","a","s","s"," ","N","o","d","e",":","\n"," "," "," "," ","d","e","f"," ","_","_","i","n","i","t","_","_","(","s","e","l","f",","," ","d","a","t","a",")",":","\n"," "," "," "," "," "," "," "," ","s","e","l","f",".","d","a","t","a"," ","="," ","d","a","t","a","\n"," "," "," "," "," "," "," "," ","s","e","l","f",".","n","e","x","t"," ","="," ","N","o","n","e","\n","\n","c","l","a","s","s"," ","L","i","n","k","e","d","L","i","s","t",":","\n"," "," "," "," ","d","e","f"," ","_","_","i","n","i","t","_","_","(","s","e","l","f",")",":","\n"," "," "," "," "," "," "," "," ","s","e","l","f",".","h","e","a","d"," ","="," ","N","o","n","e","\n">>,
    <<"\n","d","e","f"," ","b","i","n","a","r","y","_","s","e","a","r","c","h","(","a","r","r",","," ","t","a","r","g","e","t",")",":","\n"," "," "," "," ","l","e","f","t",","," ","r","i","g","h","t"," ","="," ","0",","," ","l","e","n","(","a","r","r",")"," ","-"," ","1","\n"," "," "," "," ","w","h","i","l","e"," ","l","e","f","t"," ","<","="," ","r","i","g","h","t",":","\n"," "," "," "," "," "," "," "," ","m","i","d"," ","="," ","(","l","e","f","t"," ","+"," ","r","i","g","h","t",")"," ","/","/"," ","2","\n"," "," "," "," "," "," "," "," ","i","f"," ","a","r","r","[","m","i","d","]"," ","=","="," ","t","a","r","g","e","t",":","\n"," "," "," "," "," "," "," "," "," "," "," "," ","r","e","t","u","r","n"," ","m","i","d","\n"," "," "," "," "," "," "," "," ","e","l","i","f"," ","a","r","r","[","m","i","d","]"," ","<"," ","t","a","r","g","e","t",":","\n"," "," "," "," "," "," "," "," "," "," "," "," ","l","e","f","t"," ","="," ","m","i","d"," ","+"," ","1","\n"," "," "," "," "," "," "," "," ","e","l","s","e",":","\n"," "," "," "," "," "," "," "," "," "," "," "," ","r","i","g","h","t"," ","="," ","m","i","d"," ","-"," ","1","\n"," "," "," "," ","r","e","t","u","r","n"," ","-","1","\n">>
    >>

\* the text of one unit
UnitText(u) ==
    CASE u.kind = "needle" -> needle_template \o Codes[u.id]
      [] u.kind = "haystack" -> haystack_sentences_text[u.id]
      [] u.kind = "fact" -> facts[u.id].prompt \o <<" ">> \o facts[u.id].answer \o <<".">>
      [] u.kind = "oolong_filler" -> oolong_filler_sentences_text[u.id]
      [] u.kind = "role" ->
            pairs[u.id].person \o <<" ","i","s"," ","a"," ">> \o pairs[u.id].role \o <<".">>
      [] u.kind = "relation" ->
            pairs[u.id].person \o <<" ">> \o pairs[u.id].relation \o <<" ">>
            \o pairs[u.id].detail \o <<".">>
      [] u.kind = "pairs_filler" -> pairs_filler_sentences_text[u.id]
      [] u.kind = "doc" -> doc_sentences_text[u.id]
      [] u.kind = "header" ->
            <<"H","e","r","e"," ","i","s"," ","t","h","e"," ","c","o","d","e",":">>
      [] u.kind = "code" -> snippet_code[u.id]
      [] u.kind = "title" -> document_sections[u.id].title
      [] u.kind = "content" -> document_sections[u.id].content
      [] u.kind = "section_fact" -> fact_value(u.pos, u.id)
      [] u.kind = "detail" -> detail_sentences_text[u.id]

\* what joins unit u to the unit v after it
SepText(u, v) ==
    IF SepLen(u, v) = 2 THEN <<"\n", "\n">>
    ELSE IF u.kind = "title" THEN <<"\n">> ELSE <<" ">>

RECURSIVE ContextText(_)
\* the text of a document, joined by halves
ContextText(units) ==
    IF units = <<>> THEN <<>>
    ELSE IF Len(units) = 1 THEN UnitText(units[1])
    ELSE LET h == Len(units) \div 2
         IN  ContextText(SubSeq(units, 1, h)) \o SepText(units[h], units[h + 1])
             \o ContextText(SubSeq(units, h + 1, Len(units)))

\* C21. count_tokens(text) is the non-negative integer floor(len(text) / 4),
\* and the metadata.context_length of every test case any of the five
\* generators returns is count_tokens of the context of that same test case:
\* documents of earlier calls on the instance add nothing to it.
C21_LengthEstimator ==
    (\E name \in BenchmarkNames : Returned(name)) =>
        LET tc == LastCall.test_case
        IN  /\ tc.metadata.context_length = DocLen(tc.context) \div 4
            /\ tc.metadata.context_length >= 0
            /\ count_tokens(DocLen(tc.context)) = tc.metadata.context_length

\* the second test case of an instance, whose length is not a multiple of 4,
\* after a first one that was returned too
C21_Witness ==
    /\ \E name \in BenchmarkNames : Returned(name)
    /\ Len(fn.calls) = 2
    /\ ~fn.calls[1].raised
    /\ fn.calls[1].test_case.metadata.context_length > 0
    /\ DocLen(LastCall.test_case.context) % 4 # 0

\* C22. For every generator, every option and every target length, the
\* expected_answer of the generated test case occurs as a substring of its
\* context.
\* Does not hold: CodeQA returns the snippet's answer ("Fibonacci numbers",
\* "Quicksort", ...), a description that occurs neither in the code nor in the
\* filler around it.
C22_AnswerEmbedded ==
    (\E name \in BenchmarkNames : Returned(name)) =>
        Contains(LastCall.test_case.expected_answer,
                 ContextText(LastCall.test_case.context))

-----------------------------------------------------------------------------
(* Properties of ContextManager (specification SpecStore)                  *)

RECURSIVE IsSubsequence(_, _)
\* the elements of part occur in whole, in the same order
IsSubsequence(part, whole) ==
    IF part = <<>> THEN TRUE
    ELSE IF whole = <<>> THEN FALSE
    ELSE IF Head(part) = Head(whole) THEN IsSubsequence(Tail(part), Tail(whole))
    ELSE IsSubsequence(part, Tail(whole))

\* C23. create(role, content) appends the entry at the end, returns its index
\* (the size before) and leaves the entries before it as they were; delete,
\* by index, by range or by role, returns the number of entries it removed and
\* keeps the others in their order; so the size is the number of create calls
\* minus the sum of what delete returned since the last clear, whatever calls
\* of create, update, delete and clear were made; and delete(index) with an
\* index outside the store returns 0 and changes nothing.
C23_SizeAccounting ==
    (pc = "fn" /\ fn.op = "store") =>
        /\ ContextManager_size(fn.context) = fn.creates - fn.deleted
        /\ fn.call.name = "create" =>
              /\ fn.context = Append(fn.before, fn.context[Len(fn.context)])
              /\ fn.context[Len(fn.context)].content = fn.call.content.text
              /\ fn.call.returned = Len(fn.before)
        /\ fn.call.name = "delete" =>
              /\ fn.call.returned = Len(fn.before) - Len(fn.context)
              /\ fn.call.returned >= 0
              /\ IsSubsequence(fn.context, fn.before)
              /\ (~fn.call.index.none
                  /\ ~(0 <= fn.call.index.n /\ fn.call.index.n < Len(fn.before))) =>
                    fn.call.returned = 0 /\ fn.context = fn.before
        /\ fn.call.name = "update" => Len(fn.context) = Len(fn.before)
        /\ fn.call.name = "clear" => fn.context = <<>>

\* a delete by role that took the middle one of three entries out, after an
\* update and an earlier delete that removed nothing
C23_Witness ==
    /\ pc = "fn" /\ fn.op = "store"
    /\ fn.call.name = "delete"
    /\ fn.call.index.none
    /\ fn.call.returned = 1
    /\ fn.creates = 3 /\ fn.deleted = 1
    /\ Len(fn.before) = 3
    /\ fn.context = <<fn.before[1], fn.before[3]>>
    /\ fn.before[1] # fn.before[3]
    /\ fn.before[1].metadata # <<>>

\* C24. update(index, content=c) on an index of the store returns True, and
\* afterwards read(index)["content"] is c, for every string c, while the
\* entry's role and metadata and every other entry are as before; update on
\* an index outside the store returns False and leaves the store as it was;
\* update never changes size().
\* Does not hold: `if content:` (line 50) skips the empty string as it skips
\* None, so update(index, content="") returns True and leaves the content.
C24_UpdateContent ==
    (pc = "fn" /\ fn.op = "store" /\ fn.call.name = "update") =>
        LET index == fn.call.index.n
            in_range == 0 <= index /\ index < Len(fn.before)
        IN  /\ ContextManager_size(fn.context) = ContextManager_size(fn.before)
            /\ ~in_range => fn.call.returned = 0 /\ fn.context = fn.before
            /\ in_range => fn.call.returned = 1
            /\ (in_range /\ fn.call.only_content /\ ~fn.call.content.none) =>
                  /\ ContextManager_read(fn.context, index).entry.content
                        = fn.call.content.text
                  /\ fn.context[index + 1].role = fn.before[index + 1].role
                  /\ fn.context[index + 1].metadata = fn.before[index + 1].metadata
                  /\ \A i \in 1..Len(fn.before) :
                        i # index + 1 => fn.context[i] = fn.before[i]

-----------------------------------------------------------------------------
(* Termination of run_benchmark (specification Spec)                       *)

\* the model invocations of the sweep so far
Invocations == Cardinality({i \in 1..Len(trace) : trace[i].op = "invoke"})

\* C25. When every model invocation returns or fails, run_benchmark on a
\* registered benchmark over n integer target lengths with num_runs
\* repetitions reaches its end after exactly n * num_runs model invocations,
\* one per trial.  The loops are for loops over the lengths and range(num_runs),
\* so a sweep stops either at its end or where an exception leaves it; the
\* statement is that it stops at its end, with that count.
\* Does not hold: an invocation that returns a message without text (content
\* None) makes evaluate raise (line 102), and the sweep stops there with the
\* exception, the remaining trials never invoked.
C25_SweepTerminates ==
    (/\ benchmark_name \in BenchmarkNames
     /\ kwargs = NoKwargs
     /\ \A i \in 1..Len(context_lengths) : ~context_lengths[i].none
     /\ pc \in {"done", "raised"}) =>
        /\ pc = "done"
        /\ Invocations = Len(context_lengths) * num_runs

-----------------------------------------------------------------------------
(* Further properties of the generators (specification SpecGen)            *)

\* C26. When generate_test_case is given a placement that is none of start,
\* middle, end, random (needle-in-haystack, OOLONG) or a separation that is
\* none of close, medium, far, random (OOLONG PAIRS), it raises instead of
\* returning a test case.
\* Does not hold: the last branch of each chain of comparisons is an else, so
\* every other value is taken as "random" and a test case is returned.
C26_MalformedPlacementRaises ==
    (/\ pc = "fn" /\ fn.op = "generate"
     /\ fn.calls # <<>>
     /\ \/ fn.name = "needle_in_haystack"
           /\ fn.kw.needle_position \notin {"absent", "start", "middle", "end", "random"}
        \/ fn.name = "oolong"
           /\ fn.kw.fact_position \notin {"absent", "start", "middle", "end", "random"}
        \/ fn.name = "oolong_pairs"
           /\ fn.kw.pair_separation \notin {"absent", "close", "medium", "far", "random"}) =>
        LastCall.raised

\* the fact of the OOLONG test case just returned
ReturnedFact ==
    LET context == LastCall.test_case.context
    IN  facts[context[CHOOSE i \in 1..Len(context) : context[i].kind = "fact"].id]

\* C27. The question of an OOLONG test case is the prompt of its fact with a
\* trailing " is" removed when the prompt ends in " is", and the prompt
\* unchanged when it does not; the expected answer is the answer of that fact.
\* Does not hold: rstrip(" is") removes trailing characters out of the set
\* {" ", "i", "s"}, so the prompt ending in "was" loses its "s".
C27_QuestionDerivation ==
    Returned("oolong") =>
        LET prompt == ReturnedFact.prompt
            n == Len(prompt)
            ends_in_is == n >= 3 /\ SubSeq(prompt, n - 2, n) = <<" ", "i", "s">>
        IN  /\ LastCall.test_case.question
                  = (IF ends_in_is THEN SubSeq(prompt, 1, n - 3) ELSE prompt)
            /\ LastCall.test_case.expected_answer = ReturnedFact.answer

\* C28. For every target length, the code of the chosen snippet appears
\* exactly once in the context of a CodeQA test case, the filler before it and
\* the filler after it hold the same number of sentences, and the question
\* and the expected answer are those of that snippet (the first snippet,
\* fibonacci, always has the expected answer "Fibonacci numbers").
C28_CodeLayout ==
    Returned("codeqa") =>
        LET tc == LastCall.test_case
            codes == {i \in 1..Len(tc.context) : tc.context[i].kind = "code"}
        IN  /\ Cardinality(codes) = 1
            /\ LET at == SetMin(codes)
                   snippet == code_snippets[tc.context[at].id]
                   before == {i \in 1..(at - 1) : tc.context[i].kind = "doc"}
                   after == {i \in (at + 1)..Len(tc.context) : tc.context[i].kind = "doc"}
               IN  /\ Cardinality(before) = Cardinality(after)
                   /\ after = (at + 1)..Len(tc.context)
                   /\ before = 1..(at - 2)
                   /\ tc.context[at - 1].kind = "header"
                   /\ tc.question = snippet.question
                   /\ tc.expected_answer = snippet.answer
                   /\ tc.context[at].id = 1 =>
                         tc.expected_answer
                             = <<"F","i","b","o","n","a","c","c","i"," ",
                                 "n","u","m","b","e","r","s">>

\* the fibonacci snippet between two fillers of more than the minimum
C28_Witness ==
    /\ Returned("codeqa")
    /\ LastCall.context_length.n = 620
    /\ \E i \in 1..Len(LastCall.test_case.context) :
          /\ LastCall.test_case.context[i].kind = "code"
          /\ LastCall.test_case.context[i].id = 1
          /\ i > 7

-----------------------------------------------------------------------------
(* Further properties of the scorers (specification SpecEval)              *)

\* C29. For each of the five scorers and every expected answer that is not
\* empty, an empty response and a response of whitespace only get score 0.0
\* and correct = false.
\* Does not hold: OOLONGBenchmark.evaluate counts the (stripped) empty response
\* as contained in the expected answer (line 103) and scores it 0.8.
C29_EmptyAnswerNoCredit ==
    (/\ pc = "fn" /\ fn.op = "evaluate" /\ fn.done
     /\ fn.expected # <<>>
     /\ Strip(fn.response) = <<>>) =>
        (~fn.returned.correct /\ fn.returned.score = Zero)

-----------------------------------------------------------------------------
(* Properties of Smithers.chat (specification SpecChat)                    *)

\* C30. With use_context true, a chat whose model call returns appends
\* exactly two entries to the store, the user's message and then the
\* assistant's reply; a chat whose model call fails returns a string
\* "Error: ..." and leaves the store as it was; with use_context false the
\* store is not modified.  So after any sequence of chat calls the entries of
\* the store alternate user, assistant, and its size is twice the number of
\* chats with use_context whose model call returned.
C30_ChatStore ==
    (pc = "fn" /\ fn.op = "chat") =>
        /\ ContextManager_size(fn.context) = 2 * fn.successes
        /\ \A i \in 1..Len(fn.context) :
              fn.context[i].role = (IF i % 2 = 1 THEN "user" ELSE "assistant")
        /\ fn.chats > 0 =>
              /\ (fn.call.use_context /\ ~fn.call.raises) =>
                    fn.context
                        = fn.before
                          \o <<[role |-> "user", content |-> PyStr(fn.call.message),
                                metadata |-> <<>>],
                               [role |-> "assistant", content |-> fn.call.content,
                                metadata |-> <<>>]>>
              /\ fn.call.raises =>
                    /\ ~fn.call.returned.none
                    /\ Len(fn.call.returned.text) >= Len(ErrorPrefix)
                    /\ SubSeq(fn.call.returned.text, 1, Len(ErrorPrefix)) = ErrorPrefix
                    /\ fn.context = fn.before
              /\ ~fn.call.use_context => fn.context = fn.before
              /\ ~fn.call.raises => fn.call.returned = fn.call.content

\* a failed chat with use_context, after a chat that was stored and one made
\* without context
C30_Witness ==
    /\ pc = "fn" /\ fn.op = "chat"
    /\ fn.chats = 3
    /\ fn.successes = 1
    /\ fn.call.use_context /\ fn.call.raises
    /\ Len(fn.context) = 2
    /\ Len(fn.call.messages) = 3

=============================================================================
